---- MODULE Spec2Model ----
(***************************************************************************)
(* A model of ssi-dk/landingzones: the generator of cron job files         *)
(* (generate_cron_files.py) and its configuration (config.py).             *)
(*                                                                         *)
(* Python strings are modelled as sequences of one-character strings, so   *)
(* that trimming, prefix and suffix tests, substring search and formatting *)
(* are computed as the code computes them.  A pandas NaN cell is the       *)
(* distinguished value NaN; str(NaN) is the text "nan".                    *)
(***************************************************************************)
EXTENDS Integers, Sequences, FiniteSets, TLC

VARIABLES
    runtime_config,   \* Config._runtime_config: option name -> value
    yaml_config,      \* Config._yaml_config: option name -> value
    environ,          \* os.environ: variable name -> value
    table,            \* the transfers file: whether it exists, and its rows as pd.read_csv gives them
    dirs,             \* the directories that exist
    disk,             \* the files written under the output directory: path -> content
    transfers_df,     \* main's transfers_df: the rules loaded by its last parse
    stdout,           \* the names in main's "Generated <name> ..." lines, in order
    outcome,          \* how main's last run ended
    given,            \* the rule as first handed over (a table row or a dict)
    transfer,         \* the rule generate_rsync_command is called with
    loaded,           \* TRUE once the rule went through parse_transfers_file and main's log default
    result,           \* what generate_rsync_command returned or raised
    call,             \* a function of the package being called: its name and arguments
    ret,              \* what the call returned
    world,            \* what the readiness checker's probes find on this host and the remote one
    checks,           \* the checks and deployment steps of the checker's last run, in order
    verdict,          \* how check_deployment_readiness.main ended
    crontab,          \* the crontab installed for the user
    sys_stdout        \* the stream sys.stdout is bound to in the checker's process

config_vars == <<runtime_config, yaml_config, environ>>
main_vars == <<table, dirs, disk, transfers_df, stdout, outcome>>
cmd_vars == <<given, transfer, loaded, result>>
fn_vars == <<call, ret>>
checker_vars == <<world, checks, verdict, crontab, sys_stdout>>
vars == <<config_vars, main_vars, cmd_vars, fn_vars, checker_vars>>

-----------------------------------------------------------------------------
(* Python str operations on sequences of characters.                       *)

\* A string literal as a sequence of its characters.
Chars(s) == [i \in 1..Len(s) |-> SubSeq(s, i, i)]

NaN == <<"NaN">>

SetMax(S) == CHOOSE m \in S : \A n \in S : n <= m
SetMin(S) == CHOOSE m \in S : \A n \in S : m <= n

IsSpace(c) == c \in {" ", "\t", "\n", "\r"}
IsDigit(c) == c \in {"0", "1", "2", "3", "4", "5", "6", "7", "8", "9"}

\* str(x): the text of a cell; a NaN renders as "nan".
str(x) == IF x = NaN THEN Chars("nan") ELSE x

\* s.strip()
strip(s) ==
    LET keep == {i \in 1..Len(s) : ~IsSpace(s[i])}
    IN  IF keep = {} THEN <<>> ELSE SubSeq(s, SetMin(keep), SetMax(keep))

\* s.rstrip(c) for a single character c
rstrip(s, c) ==
    LET keep == {i \in 1..Len(s) : s[i] # c}
    IN  IF keep = {} THEN <<>> ELSE SubSeq(s, 1, SetMax(keep))

startswith(s, p) == Len(p) <= Len(s) /\ SubSeq(s, 1, Len(p)) = p
endswith(s, p) == Len(p) <= Len(s) /\ SubSeq(s, Len(s) - Len(p) + 1, Len(s)) = p

\* s.isdigit()
isdigit(s) == Len(s) > 0 /\ \A i \in 1..Len(s) : IsDigit(s[i])

\* sub in s
Contains(s, sub) ==
    \E i \in 0..(Len(s) - Len(sub)) : SubSeq(s, i + 1, i + Len(sub)) = sub

\* The printable ASCII characters in code-point order, from " " (32).
\* (A TLA+ string cannot hold a backquote: the character is the element Backquote.)
Backquote == "BACKQUOTE"

Ascii ==
    Chars(" !\"#$%&'()*+,-./0123456789:;<=>?@ABCDEFGHIJKLMNOPQRSTUVWXYZ[\\]^_")
    \o <<Backquote>> \o Chars("abcdefghijklmnopqrstuvwxyz{|}~")

ord(c) == 31 + CHOOSE i \in 1..Len(Ascii) : Ascii[i] = c

\* a < b for Python strings: lexicographic by code point.
str_lt(a, b) ==
    \E i \in 1..(Len(b)) :
        /\ \A j \in 1..(i - 1) : j <= Len(a) /\ a[j] = b[j]
        /\ (i > Len(a) \/ ord(a[i]) < ord(b[i]))
        /\ i - 1 <= Len(a)

\* s.upper()
upper(s) ==
    [i \in 1..Len(s) |->
        IF ord(s[i]) >= 97 /\ ord(s[i]) <= 122 THEN Ascii[ord(s[i]) - 32 - 31] ELSE s[i]]

\* series.replace('nan', ''): only a cell that is exactly 'nan' is replaced.
replace_nan(s) == IF s = Chars("nan") THEN <<>> ELSE s

\* series.str.replace(r'\.0$', '', regex=True)
replace_dot_zero(s) ==
    IF endswith(s, Chars(".0")) THEN SubSeq(s, 1, Len(s) - 2) ELSE s

T(s) == Chars(s)

-----------------------------------------------------------------------------
(* config.py                                                               *)

IsWordChar(c) ==
    \/ IsDigit(c)
    \/ c = "_"
    \/ c \in {"A", "B", "C", "D", "E", "F", "G", "H", "I", "J", "K", "L", "M",
              "N", "O", "P", "Q", "R", "S", "T", "U", "V", "W", "X", "Y", "Z"}
    \/ c \in {"a", "b", "c", "d", "e", "f", "g", "h", "i", "j", "k", "l", "m",
              "n", "o", "p", "q", "r", "s", "t", "u", "v", "w", "x", "y", "z"}

\* The value of the environment variable whose name is the characters nm.
EnvHas(env, nm) == \E k \in DOMAIN env : Chars(k) = nm
EnvGet(env, nm) == env[CHOOSE k \in DOMAIN env : Chars(k) = nm]

\* os.path.expandvars: $NAME and ${NAME} are replaced when NAME is set.
RECURSIVE expandvars_from(_, _, _)
expandvars_from(s, i, env) ==
    IF i > Len(s) THEN <<>>
    ELSE IF s[i] # "$" \/ i = Len(s) THEN <<s[i]>> \o expandvars_from(s, i + 1, env)
    ELSE IF s[i + 1] = "{" THEN
        LET close == {j \in (i + 2)..Len(s) : s[j] = "}"}
        IN  IF close = {} THEN <<s[i]>> \o expandvars_from(s, i + 1, env)
            ELSE LET j == SetMin(close)
                     nm == SubSeq(s, i + 2, j - 1)
                 IN  IF EnvHas(env, nm)
                     THEN EnvGet(env, nm) \o expandvars_from(s, j + 1, env)
                     ELSE SubSeq(s, i, j) \o expandvars_from(s, j + 1, env)
    ELSE IF IsWordChar(s[i + 1]) THEN
        LET stop == {j \in (i + 1)..Len(s) : ~IsWordChar(s[j])}
            e == IF stop = {} THEN Len(s) ELSE SetMin(stop) - 1
            nm == SubSeq(s, i + 1, e)
        IN  IF EnvHas(env, nm)
            THEN EnvGet(env, nm) \o expandvars_from(s, e + 1, env)
            ELSE SubSeq(s, i, e) \o expandvars_from(s, e + 1, env)
    ELSE <<s[i]>> \o expandvars_from(s, i + 1, env)

expandvars(s, env) == expandvars_from(s, 1, env)

\* os.path.expanduser: "~" and "~/..." become $HOME; "~name" is left alone.
expanduser(s, env) ==
    IF ~startswith(s, Chars("~")) THEN s
    ELSE LET slash == {j \in 1..Len(s) : s[j] = "/"}
             i == IF slash = {} THEN Len(s) + 1 ELSE SetMin(slash)
         IN  IF i # 2 \/ "HOME" \notin DOMAIN env THEN s
             ELSE LET home == rstrip(env["HOME"], "/")
                      joined == home \o SubSeq(s, i, Len(s))
                  IN  IF joined = <<>> THEN Chars("/") ELSE joined

_expand_path(path) ==
    IF path # <<>> THEN expandvars(expanduser(path, environ), environ) ELSE path

\* Config._get_value with the environment looked at before the runtime
\* overrides.
_get_value_env_first(self, key, env_var, default) ==
    IF env_var \in DOMAIN environ /\ environ[env_var] # <<>>
    THEN _expand_path(environ[env_var])
    ELSE IF key \in DOMAIN self.runtime_config THEN _expand_path(self.runtime_config[key])
    ELSE IF key \in DOMAIN self.yaml_config THEN _expand_path(self.yaml_config[key])
    ELSE _expand_path(default)

\* Config._get_value; self is a Config: its runtime overrides and its
\* config file's values.
_get_value(self, key, env_var, default) ==
    IF key \in DOMAIN self.runtime_config THEN _expand_path(self.runtime_config[key])
    ELSE IF env_var \in DOMAIN environ /\ environ[env_var] # <<>>
         THEN _expand_path(environ[env_var])
    ELSE IF key \in DOMAIN self.yaml_config THEN _expand_path(self.yaml_config[key])
    ELSE _expand_path(default)

\* os.path.join(a, b)
os_path_join(a, b) ==
    IF startswith(b, Chars("/")) THEN b
    ELSE IF a = <<>> \/ endswith(a, Chars("/")) THEN a \o b
    ELSE a \o Chars("/") \o b

transfers_file(self) ==
    _get_value(self, "transfers_file", "LZ_TRANSFERS_FILE", Chars("config/transfers.tsv"))

default_lock_file(self) ==
    _get_value(self, "default_lock_file", "LZ_LOCK_FILE", Chars("/tmp/landingzones.lock"))

log_dir(self) == _get_value(self, "log_dir", "LZ_LOG_DIR", Chars("log"))

input_dir(self) == _get_value(self, "input_dir", "LZ_INPUT_DIR", Chars("input"))

output_dir(self) == _get_value(self, "output_dir", "LZ_OUTPUT_DIR", Chars("output"))

crontab_dir(self) ==
    _get_value(self, "crontab_dir", "LZ_CRONTAB_DIR",
               os_path_join(output_dir(self), Chars("crontab.d")))

default_cron_frequency(self) ==
    _get_value(self, "default_cron_frequency", "LZ_CRON_FREQUENCY",
               Chars("*/15 * * * *"))

None == <<"None">>

\* A configuration layer without values (lines 104-105).
EmptyConfig == [k \in {} |-> <<>>]

\* What yaml.safe_load(f) or {} gives for the config files that exist
\* (_load_yaml_config, lines 59-64): one sets crontab_dir, one is empty.
YamlFiles ==
    (Chars("/home/u/a.yaml") :> ("crontab_dir" :> Chars("c"))) @@ (Chars("/b.yaml") :> EmptyConfig)

\* _load_yaml_config(config_file), lines 46-64, for a named file: its
\* values when the expanded path exists, otherwise {}.
_load_yaml_config(config_file) ==
    LET config_path == expandvars(expanduser(config_file, environ), environ)
    IN  IF config_path \in DOMAIN YamlFiles THEN YamlFiles[config_path] ELSE EmptyConfig

\* Config._load_yaml(config_file), lines 110-117, for a named file.
_load_yaml(self, config_file) ==
    [self EXCEPT !.yaml_config = _load_yaml_config(config_file)]

\* Config.load_config storing every keyword argument, None included.
load_config_storing_none(self, kwargs) ==
    LET named == "config_file" \in DOMAIN kwargs /\ kwargs["config_file"] \notin {None, <<>>}
        file == IF named THEN _load_yaml(self, kwargs["config_file"]) ELSE self
        set == DOMAIN kwargs \ {"config_file"}
    IN  [file EXCEPT !.runtime_config =
            [k \in (DOMAIN self.runtime_config) \cup set |->
                IF k \in set THEN kwargs[k] ELSE self.runtime_config[k]]]

\* Config.load_config, lines 119-146, kwargs being the keyword arguments of
\* the call, config_file among them when given: a config_file that is not
\* None or '' is loaded over the file layer (line 141), and every other
\* keyword argument that is not None is stored over the runtime overrides.
load_config(self, kwargs) ==
    LET named == "config_file" \in DOMAIN kwargs /\ kwargs["config_file"] \notin {None, <<>>}
        file == IF named THEN _load_yaml(self, kwargs["config_file"]) ELSE self
        set == {k \in DOMAIN kwargs \ {"config_file"} : kwargs[k] # None}
    IN  [file EXCEPT !.runtime_config =
            [k \in (DOMAIN self.runtime_config) \cup set |->
                IF k \in set THEN kwargs[k] ELSE self.runtime_config[k]]]

\* The module's Config instance (line 234).
config == [runtime_config |-> runtime_config, yaml_config |-> yaml_config]

\* Config.to_dict, lines 216-228, without config_file: every recognized
\* option with its resolved value.
to_dict(self) ==
    [transfers_file |-> transfers_file(self),
     default_lock_file |-> default_lock_file(self),
     log_dir |-> log_dir(self),
     output_dir |-> output_dir(self),
     input_dir |-> input_dir(self),
     crontab_dir |-> crontab_dir(self),
     default_cron_frequency |-> default_cron_frequency(self)]

-----------------------------------------------------------------------------
(* generate_cron_files.py: parse_transfers_file, per row.                  *)
(*                                                                         *)
(* A row is a record of cells, each NaN (an empty cell) or text.  A cell   *)
(* of a numeric column is held as the text astype(str) gives for it        *)
(* ("2222.0" for a float column), on which strip() changes nothing.        *)

\* Lines 24-26: every text column is trimmed; a NaN becomes the text 'nan'.
strip_columns(row) == [f \in DOMAIN row |-> strip(str(row[f]))]

\* Lines 31-53 for one row (fillna, astype(str), replace('nan', ''), '.0').
parse_row(row) ==
    LET r == strip_columns(row)
    IN  [r EXCEPT !.rsync_options = replace_nan(@),
                  !.log_file = replace_nan(@),
                  !.flock_file = replace_nan(@),
                  !.frequency = replace_nan(@),
                  !.destination_port = replace_dot_zero(replace_nan(@))]

\* main, lines 242-246: the default log file for a rule without one.
apply_default_log(row, default_log_file) ==
    [row EXCEPT !.log_file =
        IF @ # <<>> /\ strip(@) # <<>> THEN @ ELSE default_log_file]

-----------------------------------------------------------------------------
(* generate_cron_files.py: generate_rsync_command.                         *)

\* Lines 88-98: a value that is exactly 'nan' is treated as empty.
clean_nan(v) == IF str(v) = Chars("nan") THEN <<>> ELSE str(v)

base_options == Chars("-av --remove-source-files")

\* port_option without the isdigit() test: any non-empty port is emitted.
port_option_unchecked(tr) ==
    LET destination_port == clean_nan(tr.destination_port)
    IN  IF destination_port # <<>>
        THEN Chars(" -e \"ssh -p ") \o strip(destination_port) \o Chars("\"")
        ELSE <<>>

\* Lines 103-106: the SSH port clause; only destination_port is consulted.
port_option(tr) ==
    LET destination_port == clean_nan(tr.destination_port)
    IN  IF destination_port # <<>> /\ isdigit(strip(destination_port))
        THEN Chars(" -e \"ssh -p ") \o strip(destination_port) \o Chars("\"")
        ELSE <<>>

\* Lines 108-116: base options, port clause, then the rule's own options.
options(tr) ==
    LET rsync_options == clean_nan(tr.rsync_options)
        with_port == base_options \o port_option(tr)
    IN  IF rsync_options # <<>> /\ strip(rsync_options) # <<>>
        THEN with_port \o Chars(" ") \o strip(rsync_options)
        ELSE with_port

\* Lines 118-121
log_redirect(tr) ==
    LET log_file == clean_nan(tr.log_file)
    IN  IF log_file # <<>>
        THEN Chars(" >> ") \o log_file \o Chars(" 2>&1")
        ELSE <<>>

\* rsync_cmd with the source and destination passed through expandvars.
rsync_cmd_expanded(tr) ==
    Chars("rsync ") \o options(tr) \o Chars(" ") \o expandvars(tr.source, environ)
        \o Chars(" ") \o expandvars(tr.destination, environ)

\* Line 125
rsync_cmd(tr) ==
    Chars("rsync ") \o options(tr) \o Chars(" ") \o tr.source
        \o Chars(" ") \o tr.destination

\* Lines 127-134
find_target(source) ==
    IF endswith(source, Chars("/*")) THEN SubSeq(source, 1, Len(source) - 2)
    ELSE IF endswith(source, Chars("*")) THEN rstrip(rstrip(source, "*"), "/")
    ELSE source

\* Line 135
find_cmd(tr) ==
    Chars("find ") \o find_target(tr.source)
        \o Chars(" -mindepth 1 -type d -empty -delete")

\* full_cmd with the redirection on the joined command only.
full_cmd_single_redirect(tr) ==
    rsync_cmd(tr) \o Chars(" && ") \o find_cmd(tr) \o log_redirect(tr)

\* Lines 137-141
full_cmd(tr) ==
    IF log_redirect(tr) # <<>>
    THEN rsync_cmd(tr) \o log_redirect(tr) \o Chars(" && ")
            \o find_cmd(tr) \o log_redirect(tr)
    ELSE rsync_cmd(tr) \o Chars(" && ") \o find_cmd(tr)

\* flock_missing without the strip() test.
flock_missing_unstripped(tr) == clean_nan(tr.flock_file) = <<>>

\* Line 144: the condition under which ValueError is raised.
flock_missing(tr) ==
    LET flock_file == clean_nan(tr.flock_file)
    IN  flock_file = <<>> \/ strip(flock_file) = <<>>

\* cron_schedule without the 'nan' clean-up of line 97.
cron_schedule_raw(tr) ==
    LET frequency == str(tr.frequency)
    IN  IF strip(frequency) # <<>> THEN strip(frequency)
        ELSE default_cron_frequency(config)

\* Line 152
cron_schedule(tr) ==
    LET frequency == clean_nan(tr.frequency)
    IN  IF strip(frequency) # <<>> THEN strip(frequency)
        ELSE default_cron_frequency(config)

NoResult ==
    [returned |-> FALSE, command |-> <<>>, raised |-> "", message |-> <<>>]

\* Lines 70-157.  Returns the command, or raises ValueError.
generate_rsync_command(tr) ==
    IF flock_missing(tr)
    THEN [returned |-> FALSE, command |-> <<>>, raised |-> "ValueError",
          message |-> Chars("flock_file is required but not specified for transfer: ")
                        \o tr.source \o Chars(" -> ") \o tr.destination]
    ELSE [returned |-> TRUE, raised |-> "", message |-> <<>>,
          command |-> cron_schedule(tr) \o Chars(" /usr/bin/flock -n ")
                        \o strip(clean_nan(tr.flock_file)) \o Chars(" -c '")
                        \o full_cmd(tr) \o Chars("'")]

-----------------------------------------------------------------------------
(* generate_cron_files.py: parse_transfers_file, generate_cron_file, main. *)

\* Line 22: the comment filter, on the cell as read (before any trimming).
is_commented(row) == startswith(str(row.system), Chars("#"))

\* Lines 24-53 for the row at index i; the DataFrame keeps the row's index.
load_row(row, i) ==
    LET r == parse_row(row)
    IN  r @@ ("idx" :> i) @@ ("system_user" :> (r.system \o Chars(".") \o r.users))

RECURSIVE parse_from(_, _)
parse_from(rows, i) ==
    IF i > Len(rows) THEN <<>>
    ELSE (IF is_commented(rows[i]) THEN <<>> ELSE <<load_row(rows[i], i)>>)
            \o parse_from(rows, i + 1)

\* parse_transfers_file reading an absent `enabled` column as "disabled":
\* only rows that carry the column are kept.
parse_enabled_only(rows) ==
    SelectSeq(parse_from(rows, 1), LAMBDA r : "enabled" \in DOMAIN r)

\* Lines 16-55: the rows of the table that are kept, in table order.
parse_transfers_file(rows) == parse_from(rows, 1)

\* Lines 59-67: the header template, around the system and the user.
header_before_system ==
    Chars("# Update from github landingzones DO NOT manually adjust\n")
    \o Chars("# Generated cron file for ")

header_before_user == Chars(" system, user ")

header_after_user ==
    Chars("\n")
    \o Chars("# put me in $HOME/crontab.d/Landing_Zone.cron\n")
    \o Chars("# Activate cron with:\n")
    \o Chars("# ") \o <<Backquote>> \o Chars("cat $HOME/crontab.d/*.cron | crontab -")
    \o <<Backquote>> \o Chars("\n")
    \o Chars("# All .cron files should be found or linked at ") \o <<Backquote>>
    \o Chars("$HOME/crontab.d") \o <<Backquote>> \o Chars("\n")
    \o Chars("SHELL=/bin/sh\n")
    \o Chars("PATH=/usr/bin:/bin\n")

\* Lines 57-68
generate_cron_header(system, user) ==
    header_before_system \o system \o header_before_user \o user \o header_after_user

\* Lines 173-179 for the i-th rule of a group: its comment line and its
\* command cmd, before the lines rest of the rules after it.  An error
\* raised for this rule, or for a later one, is what comes out.
transfer_lines(tr, i, cmd, rest) ==
    IF cmd.raised # "" THEN [raised |-> cmd.raised, content |-> <<>>]
    ELSE IF rest.raised # "" THEN rest
    ELSE [raised |-> "",
          content |-> (IF i > 1 THEN Chars("\n") ELSE <<>>)
              \o Chars("# Transfer from ") \o tr.source \o Chars(" to ")
              \o tr.destination \o Chars("\n")
              \o cmd.command \o Chars("\n") \o rest.content]

\* Lines 169-179: the loop over the rules of a group, from the i-th on.
RECURSIVE cron_lines_from(_, _)
cron_lines_from(group, i) ==
    IF i > Len(group) THEN [raised |-> "", content |-> <<>>]
    ELSE transfer_lines(group[i], i, generate_rsync_command(group[i]),
                        cron_lines_from(group, i + 1))

\* Lines 163-167 and 181: the header before the lines of the rules.
with_header(first_transfer, lines) ==
    IF lines.raised # "" THEN lines
    ELSE [raised |-> "",
          content |-> generate_cron_header(first_transfer.system, first_transfer.users)
                        \o lines.content]

\* generate_cron_file writing the first rule of the group only.
generate_cron_file_first(system_user, group) ==
    with_header(group[1], cron_lines_from(<<group[1]>>, 1))

\* Lines 160-181: the whole text of a group's job file, or the error raised.
generate_cron_file(system_user, group) ==
    with_header(group[1], cron_lines_from(group, 1))

NoFiles == [f \in {} |-> <<>>]

\* df[df['system_user'] == key], in table order
RECURSIVE group_of(_, _)
group_of(df, key) ==
    IF df = <<>> THEN <<>>
    ELSE (IF Head(df).system_user = key THEN <<Head(df)>> ELSE <<>>)
            \o group_of(Tail(df), key)

\* The group keys in the order groupby('system_user') yields them: sorted.
RECURSIVE sorted_keys(_)
sorted_keys(S) ==
    IF S = {} THEN <<>>
    ELSE LET m == CHOOSE k \in S : \A o \in S : o = k \/ str_lt(k, o)
         IN  <<m>> \o sorted_keys(S \ {m})

group_keys(df) == sorted_keys({df[i].system_user : i \in 1..Len(df)})

\* Line 252: the suffix of a job file's name.
landing_zone_cron == Chars(".Landing_Zone.cron")

\* open(output_path, 'w') not truncating: the text is added to what the file held.
write_file_append(w, output_path, file) ==
    (output_path :> ((IF output_path \in DOMAIN w THEN w[output_path] ELSE <<>>)
                        \o file.content)) @@ w

\* Lines 256-258: the file of a group is written, over any file at the path.
write_file(w, output_path, file) == (output_path :> file.content) @@ w

\* Lines 251-258: one group after the other, the file of a group written
\* once its whole text is synthesized; an error ends the loop.  w holds the
\* files on disk so far (path -> content), out the names printed so far.
RECURSIVE write_groups(_, _, _, _, _)

\* Lines 252-258 with the group's file opened for writing before its text
\* is synthesized: an error leaves the file empty.
write_group_opened_first(keys, df, out_dir, w, out, file) ==
    IF file.raised # ""
    THEN [raised |-> file.raised,
          writes |-> (os_path_join(out_dir, Head(keys) \o landing_zone_cron) :> <<>>) @@ w,
          stdout |-> out]
    ELSE write_groups(Tail(keys), df, out_dir,
            write_file(w, os_path_join(out_dir, Head(keys) \o landing_zone_cron), file),
            Append(out, Head(keys) \o landing_zone_cron))

\* Lines 252-258 for the first of the groups left, file being what
\* generate_cron_file gave for it, then the groups after it.
write_group(keys, df, out_dir, w, out, file) ==
    IF file.raised # "" THEN [raised |-> file.raised, writes |-> w, stdout |-> out]
    ELSE write_groups(Tail(keys), df, out_dir,
            write_file(w, os_path_join(out_dir, Head(keys) \o landing_zone_cron), file),
            Append(out, Head(keys) \o landing_zone_cron))

write_groups(keys, df, out_dir, w, out) ==
    IF keys = <<>> THEN [raised |-> "", writes |-> w, stdout |-> out]
    ELSE write_group(keys, df, out_dir, w, out,
                     generate_cron_file(Head(keys), group_of(df, Head(keys))))

NotRun == [returned |-> FALSE, code |-> 0, raised |-> ""]
\* main returning the exit code 0 whatever happened.
ReturnedZero(c) == [returned |-> TRUE, code |-> 0, raised |-> ""]

Returned(c) == [returned |-> TRUE, code |-> c, raised |-> ""]
Raised(e) == [returned |-> FALSE, code |-> 0, raised |-> e]

\* Lines 219-292, with cfg the configuration once line 212 has loaded the
\* command line: the directories the run makes, the files on disk after it,
\* the rules it loaded, the names it printed and how it ended.
run_main(cfg) ==
    IF ~table.exists
    THEN [made |-> {}, writes |-> disk, transfers_df |-> <<>>, stdout |-> <<>>,
          outcome |-> Returned(1)]
    ELSE LET made == {crontab_dir(cfg), log_dir(cfg)}
             df == parse_transfers_file(table.rows)
             default_log_file == os_path_join(log_dir(cfg), Chars("transfers.log"))
         IN  IF df = <<>>
             THEN [made |-> made, writes |-> disk, transfers_df |-> df,
                   stdout |-> <<>>, outcome |-> Returned(1)]
             ELSE LET rules == [i \in 1..Len(df) |->
                                    apply_default_log(df[i], default_log_file)]
                      w == write_groups(group_keys(rules), rules, crontab_dir(cfg),
                                        disk, <<>>)
                  IN  [made |-> made, writes |-> w.writes, transfers_df |-> rules,
                       stdout |-> w.stdout,
                       outcome |-> IF w.raised # "" THEN Raised(w.raised)
                                   ELSE Returned(0)]

Environ == ("HOME" :> T("/home/u"))

-----------------------------------------------------------------------------
(* The generator command, run on a table.                                  *)

MaxRows == 3

Cell(s) == IF s = "" THEN NaN ELSE Chars(s)

Row(system, users, source, flock_file) ==
    [system |-> Cell(system), users |-> Cell(users), source |-> Cell(source),
     source_port |-> NaN, destination |-> Chars("/d/"), destination_port |-> NaN,
     rsync_options |-> NaN, log_file |-> NaN, flock_file |-> Cell(flock_file),
     frequency |-> NaN]

\* The rows a table without an `enabled` column is made of.
PlainRows ==
    {Row("a", "b", "/s/*", "/l"), Row("a", "b", " /t/", "/l"),
     Row("c", "b", "/u/", "/l"), Row("#a", "b", "/s/", "/l"),
     Row(" #a", "b", "/s/", "/l"), Row("c", "d", "/s/", "")}

\* The same rows in a table with an `enabled` column.
Enabled(row) ==
    IF row.system = Chars("c") /\ row.users = Chars("b") THEN Chars("FALSE")
    ELSE IF row.source = Chars(" /t/") THEN Chars(" true")
    ELSE Chars("TRUE")

EnabledRows == {r @@ ("enabled" :> Enabled(r)) : r \in PlainRows}

SeqsUpTo(S, n) == UNION {[1..k -> S] : k \in 0..n}

Tables ==
    {[exists |-> FALSE, rows |-> <<>>]}
    \cup {[exists |-> TRUE, rows |-> rs] : rs \in SeqsUpTo(PlainRows, MaxRows)}
    \cup {[exists |-> TRUE, rows |-> rs] : rs \in SeqsUpTo(EnabledRows, MaxRows) \ {<<>>}}

\* The output directory before the first run: empty, or holding a job file
\* of an earlier run.
InitialDisks ==
    {NoFiles, (Chars("output/crontab.d/a.b.Landing_Zone.cron") :> Chars("# old\n"))}

\* The command line of a run: --log-dir and --output-dir, each optional.
Args ==
    [log_dir : {None, Chars("/v")}, crontab_dir : {None}, transfers_file : {None}]

Idle == [enabled |-> <<>>]

\* No function is being called, nothing was returned.
NoCall == [fn |-> "none"]
NoReturn == [fn |-> "none"]

\* The readiness checker has not run; no crontab is installed.
NoWorld == [tools |-> TRUE]
NoVerdict == [returned |-> FALSE, value |-> FALSE, raised |-> ""]
NoCrontab == <<"no crontab">>
NoChecker ==
    /\ world = NoWorld /\ checks = <<>> /\ verdict = NoVerdict /\ crontab = NoCrontab
    /\ sys_stdout = "terminal"

Init ==
    /\ runtime_config = EmptyConfig
    /\ yaml_config = EmptyConfig
    /\ environ = Environ
    /\ table \in Tables
    /\ dirs = {}
    /\ disk \in InitialDisks
    /\ transfers_df = <<>>
    /\ stdout = <<>>
    /\ outcome = NotRun
    /\ given = Idle /\ transfer = Idle /\ loaded = FALSE /\ result = NoResult
    /\ call = NoCall /\ ret = NoReturn
    /\ NoChecker

\* generate_cron_files.main, lines 184-292: the command line is loaded into
\* the module's configuration, then the run.
main(args) ==
    LET cfg == load_config(config, args)
    IN  \E run \in {run_main(cfg)} :
            /\ runtime_config' = cfg.runtime_config
            /\ dirs' = dirs \cup run.made
            /\ disk' = run.writes
            /\ transfers_df' = run.transfers_df
            /\ stdout' = run.stdout
            /\ outcome' = run.outcome
            /\ UNCHANGED <<yaml_config, environ, table, cmd_vars, fn_vars, checker_vars>>

Next == \E args \in Args : main(args)

Spec == Init /\ [][Next]_vars

-----------------------------------------------------------------------------
(* Properties of rule loading and of the generator run, checked under Spec. *)

Ran == outcome # NotRun

\* The table rows (by index) that the run loaded.
LoadedIdx == {transfers_df[i].idx : i \in 1..Len(transfers_df)}

HasEnabledColumn ==
    \E i \in 1..Len(table.rows) : "enabled" \in DOMAIN table.rows[i]

\* The row's system cell, trimmed, starts with '#'.
IsCommentRow(row) == startswith(strip(str(row.system)), T("#"))

\* C2: when the table has an `enabled` column, a row whose trimmed enabled
\* value is not TRUE (case-insensitively) is not among the loaded rules.
C2_DisabledDropped ==
    Ran =>
        \A i \in 1..Len(table.rows) :
            ("enabled" \in DOMAIN table.rows[i]
                /\ upper(strip(str(table.rows[i].enabled))) # T("TRUE"))
            => i \notin LoadedIdx

\* C3: when the table has no `enabled` column, every row that is not a
\* comment row is among the loaded rules, with its own trimmed cells, and
\* the loaded rules are in table order.
C3_AllKeptInOrder ==
    (Ran /\ ~HasEnabledColumn) =>
        /\ \A i \in 1..Len(table.rows) :
                ~IsCommentRow(table.rows[i]) =>
                    \E k \in 1..Len(transfers_df) :
                        /\ transfers_df[k].idx = i
                        /\ transfers_df[k].system = strip(str(table.rows[i].system))
                        /\ transfers_df[k].users = strip(str(table.rows[i].users))
                        /\ transfers_df[k].source = strip(str(table.rows[i].source))
        /\ \A k \in 1..(Len(transfers_df) - 1) :
                transfers_df[k].idx < transfers_df[k + 1].idx

C3_Witness ==
    /\ Ran
    /\ ~HasEnabledColumn
    /\ Len(table.rows) = 3
    /\ table.rows[1].system = T("c")
    /\ table.rows[2].system = T("#a")
    /\ table.rows[3].source = T(" /t/")
    /\ Len(transfers_df) = 2
    /\ transfers_df[1].idx = 1
    /\ transfers_df[2].idx = 3
    /\ transfers_df[2].source = T("/t/")

\* C4: the loaded rules are exactly the rows whose system cell, trimmed,
\* does not start with '#'.
C4_CommentsDropped ==
    (Ran /\ table.exists) =>
        LoadedIdx = {i \in 1..Len(table.rows) : ~IsCommentRow(table.rows[i])}

\* The scheduling group key of a loaded rule, and the keys of the run.
GroupKey(r) == r.system \o T(".") \o r.users

GroupKeys == {GroupKey(transfers_df[i]) : i \in 1..Len(transfers_df)}

JobFileName(key) == key \o T(".Landing_Zone.cron")

JobFilePath(key) == T("output/crontab.d/") \o JobFileName(key)

\* The lines of a text, from position p on.
RECURSIVE lines_from(_, _)
lines_from(s, p) ==
    IF p > Len(s) THEN <<>>
    ELSE LET ends == {i \in p..Len(s) : s[i] = "\n"}
             e == IF ends = {} THEN Len(s) + 1 ELSE SetMin(ends)
         IN  <<SubSeq(s, p, e - 1)>> \o lines_from(s, e + 1)

\* The command lines of a job file: every line that is not empty, not a
\* comment and not one of the header's SHELL= and PATH= lines.
CommandLines(content) ==
    SelectSeq(lines_from(content, 1),
              LAMBDA l : /\ l # <<>>
                         /\ ~startswith(l, T("#"))
                         /\ ~startswith(l, T("SHELL="))
                         /\ ~startswith(l, T("PATH=")))

\* The commands of the loaded rules of a group, in the order loaded.
GroupCommands(key) ==
    LET group == SelectSeq(transfers_df, LAMBDA r : GroupKey(r) = key)
    IN  [k \in 1..Len(group) |-> generate_rsync_command(group[k]).command]

\* C5 as stated: a run that loaded rules writes one job file per distinct
\* group key, as many files as there are keys.
C5_AsStated ==
    (Ran /\ transfers_df # <<>>) =>
        /\ Len(stdout) = Cardinality(GroupKeys)
        /\ \A key \in GroupKeys : JobFilePath(key) \in DOMAIN disk

\* C5, amended: a run that ends with exit code 0 has written exactly one job
\* file <system>.<user>.Landing_Zone.cron per distinct group key of the
\* loaded rules, as many files as keys, each holding one command per rule
\* of its group in table order; a run ended by a rule without flock_file
\* has written fewer files than there are keys.
C5_OneFilePerGroup ==
    /\ outcome = Returned(0) =>
        /\ transfers_df # <<>>
        /\ Len(stdout) = Cardinality(GroupKeys)
        /\ {stdout[i] : i \in 1..Len(stdout)} = {JobFileName(key) : key \in GroupKeys}
        /\ \A key \in GroupKeys :
            /\ JobFilePath(key) \in DOMAIN disk
            /\ CommandLines(disk[JobFilePath(key)]) = GroupCommands(key)
        /\ \A k \in 1..(Len(transfers_df) - 1) :
                transfers_df[k].idx < transfers_df[k + 1].idx
    /\ outcome.raised # "" =>
        /\ outcome.raised = "ValueError"
        /\ Len(stdout) < Cardinality(GroupKeys)

C5_Witness ==
    /\ outcome = Returned(0)
    /\ Len(transfers_df) = 3
    /\ transfers_df[1].system = T("c")
    /\ transfers_df[2].source = T("/s/*")
    /\ transfers_df[3].source = T("/t/")
    /\ stdout = <<T("a.b.Landing_Zone.cron"), T("c.b.Landing_Zone.cron")>>
    /\ Len(CommandLines(disk[JobFilePath(T("a.b"))])) = 2
    /\ Contains(CommandLines(disk[JobFilePath(T("a.b"))])[1], T(" /s/* /d/ "))
    /\ Contains(CommandLines(disk[JobFilePath(T("a.b"))])[2], T(" /t/ /d/ "))

\* The job file of every group of the loaded rules is on disk and was
\* reported as generated by this run.
AllGroupsWritten ==
    \A key \in GroupKeys :
        /\ JobFilePath(key) \in DOMAIN disk
        /\ \E i \in 1..Len(stdout) : stdout[i] = JobFileName(key)

\* C12: main returns exit code 1 when the transfers file does not exist and
\* when no rule is left after loading, in both cases without writing a file;
\* it returns 0 when, and only when, rules were loaded and the job file of
\* every group has been written.
C12_ExitCodes ==
    Ran =>
        /\ ~table.exists
            => outcome.returned /\ outcome.code = 1 /\ stdout = <<>>
        /\ (table.exists /\ LoadedIdx = {})
            => outcome.returned /\ outcome.code = 1 /\ stdout = <<>>
        /\ (table.exists /\ LoadedIdx # {} /\ Len(stdout) = Cardinality(GroupKeys))
            => outcome.returned /\ outcome.code = 0 /\ AllGroupsWritten
        /\ (outcome.returned /\ outcome.code = 0)
            => table.exists /\ LoadedIdx # {} /\ AllGroupsWritten
        /\ outcome.returned => outcome.code \in {0, 1}

C12_Witness ==
    /\ Ran
    /\ table.exists
    /\ Len(table.rows) = 2
    /\ \A i \in 1..2 : is_commented(table.rows[i])
    /\ outcome.returned
    /\ outcome.code = 1
    /\ stdout = <<>>

-----------------------------------------------------------------------------
(* The generator command run again and again, the transfers file edited      *)
(* between the runs.                                                         *)

MaxRunRows == 2

RunRows == {Row("a", "b", "/s/*", "/l"), Row("c", "b", "/u/", "/l")}

RunTables ==
    {[exists |-> FALSE, rows |-> <<>>]}
    \cup {[exists |-> TRUE, rows |-> rs] : rs \in SeqsUpTo(RunRows, MaxRunRows)}

InitRuns ==
    /\ runtime_config = EmptyConfig
    /\ yaml_config = EmptyConfig
    /\ environ = Environ
    /\ table \in RunTables
    /\ dirs = {}
    /\ disk \in InitialDisks
    /\ transfers_df = <<>>
    /\ stdout = <<>>
    /\ outcome = NotRun
    /\ given = Idle /\ transfer = Idle /\ loaded = FALSE /\ result = NoResult
    /\ call = NoCall /\ ret = NoReturn
    /\ NoChecker

\* The operator edits, removes or restores the transfers file that line 223
\* looks for and line 236 reads.
edit_transfers ==
    /\ table' \in RunTables \ {table}
    /\ UNCHANGED <<config_vars, dirs, disk, transfers_df, stdout, outcome, cmd_vars, fn_vars, checker_vars>>

NextRuns ==
    \/ \E args \in Args : main(args)
    \/ edit_transfers

SpecRuns == InitRuns /\ [][NextRuns]_vars

\* The comment line and the command line of each rule of a group from the
\* k-th on, a blank line between two rules.
RECURSIVE ExpectedLines(_, _)
ExpectedLines(group, k) ==
    IF k > Len(group) THEN <<>>
    ELSE (IF k > 1 THEN T("\n") ELSE <<>>)
         \o T("# Transfer from ") \o group[k].source \o T(" to ")
         \o group[k].destination \o T("\n")
         \o generate_rsync_command(group[k]).command \o T("\n")
         \o ExpectedLines(group, k + 1)

\* The text of the job file of group key, for the rules df of a run.
ExpectedJobFile(df, key) ==
    LET group == SelectSeq(df, LAMBDA r : GroupKey(r) = key)
    IN  generate_cron_header(group[1].system, group[1].users)
        \o ExpectedLines(group, 1)

KeysOf(df) == {GroupKey(df[i]) : i \in 1..Len(df)}

\* C11: a run that ends with exit code 0 leaves, for every group of its
\* rules, a job file that is exactly the header and the comment and command
\* lines of the group's rules in this run, whatever the file held before,
\* and leaves every other file as it was; a run that ends with exit code 1
\* and an edit of the transfers file change no file.  So after any sequence
\* of runs a group's file is that of the latest run that included the group.
C11_Regenerated ==
    [][LET df == transfers_df'
           after == disk'
       IN  IF table' = table /\ outcome' = Returned(0)
           THEN /\ DOMAIN after = DOMAIN disk \cup {JobFilePath(key) : key \in KeysOf(df)}
                /\ \A key \in KeysOf(df) :
                        after[JobFilePath(key)] = ExpectedJobFile(df, key)
                /\ \A path \in DOMAIN disk :
                        path \notin {JobFilePath(key) : key \in KeysOf(df)}
                            => after[path] = disk[path]
           ELSE after = disk]_vars

C11_Witness ==
    /\ outcome = Returned(0)
    /\ Len(transfers_df) = 1
    /\ transfers_df[1].system = T("a")
    /\ JobFilePath(T("c.b")) \in DOMAIN disk
    /\ Len(CommandLines(disk[JobFilePath(T("c.b"))])) = 2
    /\ disk[JobFilePath(T("a.b"))] = ExpectedJobFile(transfers_df, T("a.b"))
    /\ Len(CommandLines(disk[JobFilePath(T("a.b"))])) = 1

-----------------------------------------------------------------------------
(* Command synthesis on one rule: the rule is handed to                    *)
(* generate_rsync_command either as given (a direct call, as the tests do) *)
(* or after parse_transfers_file and main's log default (as main does).    *)

Sources == {T("/source/"), T("$HOME/src/*"), T("user@remote:/source/"), T("/d/in*")}
SourcePorts == {<<>>, T("2222")}
Destinations == {T("/dest/"), T("user@host:/dest/")}
DestinationPorts == {<<>>, NaN, T("nan"), T("2222"), T("2222.0"), T("abc")}
RsyncOptions == {<<>>, T("  "), T(" -z ")}
LogFiles == {<<>>, T(" "), T("nan"), T("$HOME/t.log")}
FlockFiles == {<<>>, T("  "), T("nan"), T(" $HOME/t.lock")}
Frequencies == {<<>>, T(" "), T("nan"), T(" nan "), T("0 0 * * *")}

Transfers ==
    [enabled : {T("TRUE")}, system : {T("srv")}, users : {T("usr")},
     source : Sources, source_port : SourcePorts,
     destination : Destinations, destination_port : DestinationPorts,
     rsync_options : RsyncOptions, log_file : LogFiles,
     flock_file : FlockFiles, frequency : Frequencies]

YamlConfigs == {EmptyConfig, ("default_cron_frequency" :> T("*/5 * * * *"))}

InitCmd ==
    /\ runtime_config = EmptyConfig
    /\ yaml_config \in YamlConfigs
    /\ environ = Environ
    /\ table = [exists |-> FALSE, rows |-> <<>>]
    /\ dirs = {}
    /\ disk = NoFiles
    /\ transfers_df = <<>>
    /\ stdout = <<>>
    /\ outcome = NotRun
    /\ given \in Transfers
    /\ transfer = given
    /\ loaded = FALSE
    /\ result = NoResult
    /\ call = NoCall /\ ret = NoReturn
    /\ NoChecker

\* main, lines 236-246, for one row of the table.
Load ==
    /\ ~loaded
    /\ result = NoResult
    /\ transfer' = apply_default_log(parse_row(given),
                                      os_path_join(log_dir(config), Chars("transfers.log")))
    /\ loaded' = TRUE
    /\ UNCHANGED <<config_vars, main_vars, given, result, fn_vars, checker_vars>>

Synthesize ==
    /\ result = NoResult
    /\ result' = generate_rsync_command(transfer)
    /\ UNCHANGED <<config_vars, main_vars, given, transfer, loaded, fn_vars, checker_vars>>

NextCmd == Load \/ Synthesize

SpecCmd == InitCmd /\ [][NextCmd]_vars
-----------------------------------------------------------------------------
(* Properties of command synthesis, checked under SpecCmd.                 *)

Synthesized == result # NoResult

\* Some field of the rule other than the port holds sub without being the
\* bare NaN artifact 'nan' that the code blanks.
Stray(tr, sub) ==
    \/ \E f \in {"source", "destination", "rsync_options", "log_file",
                 "flock_file", "frequency"} :
            str(tr[f]) # T("nan") /\ Contains(str(tr[f]), sub)
    \/ Contains(default_cron_frequency(config), sub)

Blank(s) == \A i \in 1..Len(s) : IsSpace(s[i])

\* C1: a rule whose flock_file is empty, only whitespace or the literal
\* 'nan' makes generate_rsync_command raise ValueError with a message that
\* names the rule's source and destination, and no command is returned.
C1_FlockRequired ==
    (Synthesized /\ (Blank(transfer.flock_file) \/ transfer.flock_file = T("nan")))
        => /\ result.raised = "ValueError"
           /\ ~result.returned
           /\ result.command = <<>>
           /\ Contains(result.message, transfer.source)
           /\ Contains(result.message, transfer.destination)

C1_Witness ==
    /\ Synthesized
    /\ transfer.flock_file = T("  ")
    /\ result.raised = "ValueError"
    /\ Contains(result.message, T("$HOME/src/* -> user@host:/dest/"))

\* The default frequency the configuration holds: the config file's value,
\* or the built-in default.
ConfiguredFrequency ==
    IF "default_cron_frequency" \in DOMAIN yaml_config
    THEN yaml_config["default_cron_frequency"]
    ELSE T("*/15 * * * *")

\* C6: the command starts with the effective schedule: the rule's frequency
\* trimmed when the frequency is not the literal 'nan' and is not empty once
\* trimmed, and the configured default frequency otherwise.
C6_EffectiveSchedule ==
    result.returned =>
        LET f == transfer.frequency
            expected == IF f = T("nan") \/ Blank(f)
                        THEN ConfiguredFrequency ELSE strip(f)
        IN  startswith(result.command, expected \o T(" /usr/bin/flock "))

C6_Witness ==
    /\ result.returned
    /\ transfer.frequency = T("nan")
    /\ "default_cron_frequency" \in DOMAIN yaml_config
    /\ startswith(result.command, T("*/5 * * * * /usr/bin/flock "))

PortClause(p) == T("-e \"ssh -p ") \o p \o T("\"")

\* C7 as stated: a destination_port of "2222" or "2222.0" handed to
\* generate_rsync_command yields the SSH port clause with 2222; an empty,
\* 'nan' or non-numeric one yields no -p clause and no 'nan'.
C7_AsStated ==
    result.returned =>
        LET p == str(transfer.destination_port)
        IN  /\ p \in {T("2222"), T("2222.0")}
                => Contains(result.command, PortClause(T("2222")))
            /\ (p \notin {T("2222"), T("2222.0")} /\ ~isdigit(strip(p)))
                => /\ Stray(transfer, T("-p ")) \/ ~Contains(result.command, T("-p "))
                   /\ Stray(transfer, T("nan")) \/ ~Contains(result.command, T("nan"))

\* C7, amended: a destination_port that is all digits once trimmed yields
\* the SSH port clause with that port; "2222.0" yields the clause with 2222
\* for a rule loaded by parse_transfers_file, which drops the trailing ".0";
\* every other value (empty, 'nan', non-numeric, and "2222.0" handed over
\* directly) yields no -p clause and no 'nan'.
C7_PortClause ==
    result.returned =>
        LET p == str(transfer.destination_port)
        IN  /\ isdigit(strip(p))
                => Contains(result.command,
                            T("rsync -av --remove-source-files ") \o PortClause(strip(p)))
            /\ (loaded /\ str(given.destination_port) = T("2222.0"))
                => Contains(result.command, PortClause(T("2222")))
            /\ ~isdigit(strip(p))
                => /\ Stray(transfer, T("-p ")) \/ ~Contains(result.command, T("-p "))
                   /\ Stray(transfer, T("nan")) \/ ~Contains(result.command, T("nan"))

C7_Witness ==
    /\ loaded
    /\ given.destination_port = T("2222.0")
    /\ result.returned
    /\ Contains(result.command, T("--remove-source-files -e \"ssh -p 2222\" "))

IsRemote(s) == Contains(s, T("@")) /\ Contains(s, T(":"))

\* C8: for a remote source (user@host:path) with a numeric source_port and
\* an empty destination_port, the command holds the SSH port clause for the
\* source port, before any user-supplied rsync options.
C8_SourcePortClause ==
    (/\ result.returned
     /\ IsRemote(transfer.source)
     /\ isdigit(str(transfer.source_port))
     /\ str(transfer.destination_port) = <<>>)
        => Contains(result.command,
                    T("rsync -av --remove-source-files ")
                        \o PortClause(str(transfer.source_port)))

Redirect(l) == T(" >> ") \o l \o T(" 2>&1")

\* C9: when the log file handed to synthesis is non-empty (in a generator
\* run: the rule's own trimmed log_file, or <log_dir>/transfers.log when the
\* rule's is empty or whitespace), the same suffix " >> <log> 2>&1" follows
\* the rsync invocation and the find invocation, joined by "&&"; with no log
\* file they are joined by "&&" with no redirection.
C9_LogRedirect ==
    result.returned =>
        LET l == str(transfer.log_file)
            own == strip(str(given.log_file))
        IN  /\ loaded => l = (IF own = <<>> \/ own = T("nan")
                              THEN T("log/transfers.log") ELSE own)
            /\ loaded => l # <<>>
            /\ (l # <<>> /\ l # T("nan"))
                => /\ Contains(result.command,
                               transfer.destination \o Redirect(l) \o T(" && find "))
                   /\ endswith(result.command,
                               T(" -empty -delete") \o Redirect(l) \o T("'"))
            /\ (l = <<>> \/ l = T("nan"))
                => /\ Contains(result.command, transfer.destination \o T(" && find "))
                   /\ endswith(result.command, T(" -empty -delete'"))
                   /\ Stray(transfer, T(">")) \/ ~Contains(result.command, T(">"))

C9_Witness ==
    /\ loaded
    /\ given.log_file = T(" ")
    /\ result.returned
    /\ Contains(result.command,
                T("/dest/ >> log/transfers.log 2>&1 && find /source/ "))
    /\ endswith(result.command, T(" -delete >> log/transfers.log 2>&1'"))

\* C10: the source, destination and log_file handed to synthesis appear in
\* the command exactly as given; a reference such as $HOME inside them is
\* not resolved.
C10_Verbatim ==
    result.returned =>
        LET l == str(transfer.log_file)
        IN  /\ Contains(result.command,
                        T(" ") \o transfer.source \o T(" ") \o transfer.destination)
            /\ (l # <<>> /\ l # T("nan")) => Contains(result.command, Redirect(l))
            /\ ~Contains(result.command, environ["HOME"])

C10_Witness ==
    /\ result.returned
    /\ ~loaded
    /\ transfer.source = T("$HOME/src/*")
    /\ transfer.log_file = T("$HOME/t.log")
    /\ Contains(result.command, T(" $HOME/src/* /dest/ >> $HOME/t.log 2>&1 && "))

-----------------------------------------------------------------------------
(* Source-path normalization and overlap detection.  The tests call        *)
(* generate_cron_files.normalize_source_path and check_overlapping_sources *)
(* (tests/test_generate_cron_files.py, lines 410-469), which the module    *)
(* does not define: both are modelled from the specification's sections    *)
(* 4.1 and 4.3 and from what the tests expect.                             *)

\* normalize_source_path stripping the trailing '/' before the trailing '*'.
normalize_slash_first(path) == rstrip(rstrip(strip(path), "/"), "*")

\* Section 4.1: strip any trailing '*' characters, then any trailing '/'.
\* The surrounding whitespace goes first: the test expects '/path/to/dir* '
\* to normalize to '/path/to/dir'.
normalize_source_path(path) == rstrip(rstrip(strip(path), "*"), "/")

MaxPathLen == 4

PathChars == {"/", "*", "a", " "}

Paths ==
    SeqsUpTo(PathChars, MaxPathLen) \cup {T("/a/b/*"), T("/a/b/"), T("/a/b")}

InitPaths ==
    /\ runtime_config = EmptyConfig
    /\ yaml_config = EmptyConfig
    /\ environ = Environ
    /\ table = [exists |-> FALSE, rows |-> <<>>]
    /\ dirs = {}
    /\ disk = NoFiles
    /\ transfers_df = <<>>
    /\ stdout = <<>>
    /\ outcome = NotRun
    /\ given = Idle /\ transfer = Idle /\ loaded = FALSE /\ result = NoResult
    /\ call \in {[fn |-> "normalize_source_path", path |-> p, again |-> FALSE,
                  from |-> p] : p \in Paths}
    /\ ret = NoReturn
    /\ NoChecker

\* The call returns.
Normalize ==
    /\ call.fn = "normalize_source_path"
    /\ ret = NoReturn
    /\ ret' = [fn |-> call.fn, value |-> normalize_source_path(call.path)]
    /\ UNCHANGED <<config_vars, main_vars, cmd_vars, call, checker_vars>>

\* The path returned is normalized once more.
NormalizeAgain ==
    /\ call.fn = "normalize_source_path"
    /\ ret # NoReturn
    /\ ~call.again
    /\ call' = [fn |-> call.fn, path |-> ret.value, again |-> TRUE, from |-> call.path]
    /\ ret' = NoReturn
    /\ UNCHANGED <<config_vars, main_vars, cmd_vars, checker_vars>>

NextPaths == Normalize \/ NormalizeAgain

SpecPaths == InitPaths /\ [][NextPaths]_vars

Repeat(c, n) == [i \in 1..n |-> c]

-----------------------------------------------------------------------------
(* Overlap detection (section 4.3).                                         *)

\* overlaps taking any lexical prefix for an ancestor.
overlaps_lexical(a, b) ==
    \/ startswith(normalize_source_path(b), normalize_source_path(a))
    \/ startswith(normalize_source_path(a), normalize_source_path(b))

\* One normalized source is a prefix of the other that ends exactly at a
\* path separator.
overlaps(a, b) ==
    \/ startswith(normalize_source_path(b), normalize_source_path(a) \o T("/"))
    \/ startswith(normalize_source_path(a), normalize_source_path(b) \o T("/"))

\* The warning for a pair of one group: it names both sources as given, the
\* ancestor first, so that the order of the rows does not show in it.
overlap_warning(key, a, b) ==
    LET a_first == startswith(normalize_source_path(b),
                              normalize_source_path(a) \o T("/"))
    IN  T("Overlapping source paths for ") \o key \o T(": ")
        \o (IF a_first THEN a ELSE b) \o T(" and ") \o (IF a_first THEN b ELSE a)

\* Every unordered pair (i, j), i < j, of the rules of one group.
RECURSIVE pair_warnings(_, _, _, _)
pair_warnings(key, group, i, j) ==
    IF i >= Len(group) THEN <<>>
    ELSE IF j > Len(group) THEN pair_warnings(key, group, i + 1, i + 2)
    ELSE (IF overlaps(group[i].source, group[j].source)
          THEN <<overlap_warning(key, group[i].source, group[j].source)>>
          ELSE <<>>)
         \o pair_warnings(key, group, i, j + 1)

\* One group after the other: pairs of different groups are never compared.
RECURSIVE group_warnings(_, _)
group_warnings(keys, df) ==
    IF keys = <<>> THEN <<>>
    ELSE pair_warnings(Head(keys), group_of(df, Head(keys)), 1, 2)
         \o group_warnings(Tail(keys), df)

check_overlapping_sources(df) == group_warnings(group_keys(df), df)

MaxRules == 3

SourceRow(system, users, source) ==
    [system |-> T(system), users |-> T(users), source |-> T(source),
     destination |-> T("/dest/"), system_user |-> T(system) \o T(".") \o T(users)]

SourceRows ==
    {SourceRow("s", u, src) :
        u \in {"u", "v"}, src \in {"/d/a/*", "/d/a/b/*", "/d/ab/*", "/d/a/"}}

Permutation(seq, f) == [i \in 1..Len(seq) |-> seq[f[i]]]

Orders(n) == {f \in [1..n -> 1..n] : \A i, j \in 1..n : f[i] = f[j] => i = j}

InitOverlaps ==
    /\ runtime_config = EmptyConfig
    /\ yaml_config = EmptyConfig
    /\ environ = Environ
    /\ table = [exists |-> FALSE, rows |-> <<>>]
    /\ dirs = {}
    /\ disk = NoFiles
    /\ transfers_df = <<>>
    /\ stdout = <<>>
    /\ outcome = NotRun
    /\ given = Idle /\ transfer = Idle /\ loaded = FALSE /\ result = NoResult
    /\ call \in {[fn |-> "check_overlapping_sources", df |-> df, reordered |-> FALSE,
                  first |-> <<>>] : df \in SeqsUpTo(SourceRows, MaxRules)}
    /\ ret = NoReturn
    /\ NoChecker

\* The call returns its warnings.
CheckOverlaps ==
    /\ call.fn = "check_overlapping_sources"
    /\ ret = NoReturn
    /\ ret' = [fn |-> call.fn, value |-> check_overlapping_sources(call.df)]
    /\ UNCHANGED <<config_vars, main_vars, cmd_vars, call, checker_vars>>

\* The same rows are handed over in another order; the warnings of the
\* first call are kept for comparison.
Reorder ==
    /\ call.fn = "check_overlapping_sources"
    /\ ret # NoReturn
    /\ ~call.reordered
    /\ \E f \in Orders(Len(call.df)) :
            call' = [fn |-> call.fn, df |-> Permutation(call.df, f),
                     reordered |-> TRUE, first |-> ret.value]
    /\ ret' = NoReturn
    /\ UNCHANGED <<config_vars, main_vars, cmd_vars, checker_vars>>

NextOverlaps == CheckOverlaps \/ Reorder

SpecOverlaps == InitOverlaps /\ [][NextOverlaps]_vars

\* Path a is a true ancestor of path d: a proper prefix of d that ends
\* where a path separator of d begins.
TrueAncestor(a, d) ==
    /\ Len(a) < Len(d)
    /\ SubSeq(d, 1, Len(a)) = a
    /\ d[Len(a) + 1] = "/"

\* The unordered pairs of rules of one group whose normalized sources are
\* ancestor and descendant.
OverlappingPairs(df) ==
    {pr \in (1..Len(df)) \X (1..Len(df)) :
        /\ pr[1] < pr[2]
        /\ df[pr[1]].system = df[pr[2]].system
        /\ df[pr[1]].users = df[pr[2]].users
        /\ LET a == normalize_source_path(df[pr[1]].source)
               b == normalize_source_path(df[pr[2]].source)
           IN  TrueAncestor(a, b) \/ TrueAncestor(b, a)}

Count(seq, w) == Cardinality({k \in 1..Len(seq) : seq[k] = w})

Names(w, df, pr) ==
    /\ startswith(w, T("Overlapping"))
    /\ Contains(w, df[pr[1]].source)
    /\ Contains(w, df[pr[2]].source)
    /\ Contains(w, df[pr[1]].system \o T(".") \o df[pr[1]].users)

\* C13: the warnings are one per unordered pair of rules of the same system
\* and user whose normalized sources are true ancestor and descendant, each
\* naming both sources as given; no other pair gets a warning; and the same
\* rows in another order give the same warnings.
C13_Overlaps ==
    ret # NoReturn =>
        /\ Len(ret.value) = Cardinality(OverlappingPairs(call.df))
        /\ \A pr \in OverlappingPairs(call.df) :
                \E k \in 1..Len(ret.value) : Names(ret.value[k], call.df, pr)
        /\ \A k \in 1..Len(ret.value) :
                \E pr \in OverlappingPairs(call.df) : Names(ret.value[k], call.df, pr)
        /\ call.reordered =>
                /\ Len(ret.value) = Len(call.first)
                /\ \A k \in 1..Len(ret.value) :
                        Count(ret.value, ret.value[k]) = Count(call.first, ret.value[k])

C13_Witness ==
    /\ ret # NoReturn
    /\ call.reordered
    /\ Len(call.df) = 3
    /\ call.df[1] = SourceRow("s", "u", "/d/a/b/*")
    /\ call.df[2] = SourceRow("s", "v", "/d/a/b/*")
    /\ call.df[3] = SourceRow("s", "u", "/d/a/*")
    /\ ret.value = call.first
    /\ ret.value = <<T("Overlapping source paths for s.u: /d/a/* and /d/a/b/*")>>

-----------------------------------------------------------------------------
(* check_deployment_readiness.py: parse_remote_destination.                 *)

\* s.split(c, 1): the text before the first c and the text after it, or s
\* alone when c is not in s.
split_once(s, c) ==
    LET at == {i \in 1..Len(s) : s[i] = c}
    IN  IF at = {} THEN <<s>>
        ELSE <<SubSeq(s, 1, SetMin(at) - 1), SubSeq(s, SetMin(at) + 1, Len(s))>>

\* parse_remote_destination splitting at every ':' and keeping the first
\* two parts (split(':') without the maxsplit of 1).
parse_remote_destination_split_all(destination) ==
    IF Contains(destination, T("@")) /\ Contains(destination, T(":"))
    THEN LET parts == split_once(destination, ":")
             halves == split_once(parts[1], "@")
         IN  IF Len(halves) # 2
             THEN [raised |-> "ValueError", user |-> None, host |-> None, path |-> None]
             ELSE [raised |-> "", user |-> halves[1], host |-> halves[2],
                   path |-> split_once(parts[2], ":")[1]]
    ELSE [raised |-> "", user |-> None, host |-> None, path |-> destination]

\* Lines 154-161.  Unpacking user_host.split('@', 1) into two names raises
\* ValueError when the text before the first ':' holds no '@'.
parse_remote_destination(destination) ==
    IF Contains(destination, T("@")) /\ Contains(destination, T(":"))
    THEN LET parts == split_once(destination, ":")
             halves == split_once(parts[1], "@")
         IN  IF Len(halves) # 2
             THEN [raised |-> "ValueError", user |-> None, host |-> None, path |-> None]
             ELSE [raised |-> "", user |-> halves[1], host |-> halves[2],
                   path |-> parts[2]]
    ELSE [raised |-> "", user |-> None, host |-> None, path |-> destination]

MaxDestLen == 5

DestChars == {"u", "@", ":", "/"}

InitParse ==
    /\ runtime_config = EmptyConfig
    /\ yaml_config = EmptyConfig
    /\ environ = Environ
    /\ table = [exists |-> FALSE, rows |-> <<>>]
    /\ dirs = {}
    /\ disk = NoFiles
    /\ transfers_df = <<>>
    /\ stdout = <<>>
    /\ outcome = NotRun
    /\ given = Idle /\ transfer = Idle /\ loaded = FALSE /\ result = NoResult
    /\ call \in {[fn |-> "parse_remote_destination", destination |-> d] :
                    d \in SeqsUpTo(DestChars, MaxDestLen)}
    /\ ret = NoReturn
    /\ NoChecker

ParseDestination ==
    /\ call.fn = "parse_remote_destination"
    /\ ret = NoReturn
    /\ ret' = [fn |-> call.fn, value |-> parse_remote_destination(call.destination)]
    /\ UNCHANGED <<config_vars, main_vars, cmd_vars, call, checker_vars>>

NextParse == ParseDestination

SpecParse == InitParse /\ [][NextParse]_vars

\* The destination has the form user@host:path: an '@' comes before its
\* first ':'.
IsUserHostPath(d) ==
    \E i, j \in 1..Len(d) :
        /\ i < j
        /\ d[i] = "@"
        /\ d[j] = ":"
        /\ \A k \in 1..(j - 1) : d[k] # ":"

\* C15: for a destination of the form user@host:path the parts returned
\* join back, as user + "@" + host + ":" + path, to the destination exactly;
\* a destination without '@' or without ':' comes back as (None, None,
\* destination).
C15_RoundTrip ==
    ret # NoReturn =>
        LET d == call.destination
            v == ret.value
        IN  /\ IsUserHostPath(d) =>
                /\ v.raised = ""
                /\ v.user # None /\ v.host # None
                /\ v.user \o T("@") \o v.host \o T(":") \o v.path = d
                /\ ~Contains(v.user, T("@")) /\ ~Contains(v.user, T(":"))
                /\ ~Contains(v.host, T(":"))
            /\ ~(Contains(d, T("@")) /\ Contains(d, T(":"))) =>
                /\ v.raised = ""
                /\ v.user = None /\ v.host = None
                /\ v.path = d

C15_Witness ==
    /\ ret # NoReturn
    /\ call.destination = T("u@/::")
    /\ ret.value.user = T("u")
    /\ ret.value.host = T("/")
    /\ ret.value.path = T(":")

-----------------------------------------------------------------------------
(* check_deployment_readiness.py: the checks of one rule.                   *)

\* os.path.exists and os.path.isdir on a directory path, ds being the
\* directories that exist: trailing separators do not matter.
path_exists(ds, path) ==
    (IF rstrip(path, "/") = <<>> /\ path # <<>> THEN T("/") ELSE rstrip(path, "/")) \in ds

\* os.path.dirname: what precedes the last '/', without trailing separators
\* unless it is made of separators only.
os_path_dirname(path) ==
    LET at == {i \in 1..Len(path) : path[i] = "/"}
        head == IF at = {} THEN <<>> ELSE SubSeq(path, 1, SetMax(at))
    IN  IF rstrip(head, "/") = <<>> THEN head ELSE rstrip(head, "/")

\* os.makedirs: the directory and every missing directory above it.
makedirs(ds, path) ==
    ds \cup {SubSeq(path, 1, i) : i \in {j \in 1..Len(path) :
                                            j = Len(path) \/ (j > 1 /\ path[j + 1] = "/")}}

\* A directory path without its trailing separators.
norm_dir(path) ==
    IF rstrip(path, "/") = <<>> /\ path # <<>> THEN T("/") ELSE rstrip(path, "/")

\* os.access(path, os.W_OK) on an existing directory: world.readonly holds
\* the directories the user may not write to.
writable(path) == norm_dir(path) \notin world.readonly

\* Whether os.makedirs can make the missing directory: the nearest
\* directory above it that exists must be writable (a relative path starts
\* in the working directory, which is).
can_makedirs(ds, path) ==
    LET above == {i \in 1..(Len(path) - 1) :
                    /\ \/ path[i + 1] = "/"
                       \/ i = 1 /\ path[1] = "/"
                    /\ path_exists(ds, SubSeq(path, 1, i))}
    IN  above = {} \/ writable(SubSeq(path, 1, SetMax(above)))

\* Lines 115-151.
check_local_directory(path, ds) ==
    LET expanded_path == expandvars(expanduser(path, environ), environ)
        check_path == IF endswith(expanded_path, T("*"))
                      THEN rstrip(rstrip(expanded_path, "*"), "/")
                      ELSE expanded_path
    IN  path_exists(ds, check_path) /\ writable(check_path)

\* Lines 216-242 passing whenever the directory is missing, whether or not
\* it could be made.
check_log_directory_unchecked(log_file_path, ds) ==
    IF log_file_path = <<>> \/ log_file_path = T("nan")
    THEN [raised |-> "", ok |-> TRUE, dirs |-> ds]
    ELSE IF log_file_path = NaN THEN [raised |-> "TypeError", ok |-> FALSE, dirs |-> ds]
    ELSE LET log_dir_path ==
                os_path_dirname(expandvars(expanduser(log_file_path, environ), environ))
         IN  IF log_dir_path = <<>> THEN [raised |-> "", ok |-> TRUE, dirs |-> ds]
             ELSE IF ~path_exists(ds, log_dir_path)
             THEN [raised |-> "", ok |-> TRUE,
                   dirs |-> IF can_makedirs(ds, log_dir_path)
                            THEN makedirs(ds, log_dir_path) ELSE ds]
             ELSE [raised |-> "", ok |-> writable(log_dir_path), dirs |-> ds]

\* Lines 216-242: whether the check passed, and the directories afterwards.
\* A cell pandas left as a float NaN is neither empty nor 'nan', and
\* os.path.expanduser raises TypeError on it.
check_log_directory(log_file_path, ds) ==
    IF log_file_path = <<>> \/ log_file_path = T("nan")
    THEN [raised |-> "", ok |-> TRUE, dirs |-> ds]
    ELSE IF log_file_path = NaN THEN [raised |-> "TypeError", ok |-> FALSE, dirs |-> ds]
    ELSE LET log_dir_path ==
                os_path_dirname(expandvars(expanduser(log_file_path, environ), environ))
         IN  IF log_dir_path = <<>> THEN [raised |-> "", ok |-> TRUE, dirs |-> ds]
             ELSE IF ~path_exists(ds, log_dir_path)
             THEN IF can_makedirs(ds, log_dir_path)
                  THEN [raised |-> "", ok |-> TRUE, dirs |-> makedirs(ds, log_dir_path)]
                  ELSE [raised |-> "", ok |-> FALSE, dirs |-> ds]
             ELSE [raised |-> "", ok |-> writable(log_dir_path), dirs |-> ds]

\* Lines 245-269, for the configured default lock file.
check_lock_file_directory(ds) ==
    LET lock_dir == os_path_dirname(default_lock_file(config))
    IN  IF lock_dir = <<>> THEN TRUE
        ELSE path_exists(ds, lock_dir) /\ writable(lock_dir)

\* One entry of the checker's report: the check, the rule it is about (its
\* row in the table; 0 for a global check) and whether it passed.
Check(name, rule, ok) == [check |-> name, rule |-> rule, ok |-> ok]

\* Lines 666-687 with the directory probed whatever the SSH probe gave.
check_destination_parts_always_probed(dest, idx, ds) ==
    IF dest.raised # "" THEN [raised |-> dest.raised, ok |-> FALSE, checks |-> <<>>]
    ELSE IF dest.user # None /\ dest.user # <<>> /\ dest.host # <<>>
    THEN [raised |-> "", ok |-> world.reachable /\ world.remote_dir,
          checks |-> <<Check("ssh", idx, world.reachable),
                       Check("remote_dir", idx, world.remote_dir)>>]
    ELSE [raised |-> "", ok |-> check_local_directory(dest.path, ds),
          checks |-> <<Check("destination", idx, check_local_directory(dest.path, ds))>>]

\* Lines 666-687 for a destination that parse_remote_destination split.
check_destination_parts(dest, idx, ds) ==
    IF dest.raised # "" THEN [raised |-> dest.raised, ok |-> FALSE, checks |-> <<>>]
    ELSE IF dest.user # None /\ dest.user # <<>> /\ dest.host # <<>>
    THEN IF world.reachable
         THEN [raised |-> "", ok |-> world.remote_dir,
               checks |-> <<Check("ssh", idx, TRUE),
                            Check("remote_dir", idx, world.remote_dir)>>]
         ELSE [raised |-> "", ok |-> FALSE, checks |-> <<Check("ssh", idx, FALSE)>>]
    ELSE [raised |-> "", ok |-> check_local_directory(dest.path, ds),
          checks |-> <<Check("destination", idx, check_local_directory(dest.path, ds))>>]

\* Lines 658-687: the destination of a rule.
check_destination(tr, idx, ds) ==
    check_destination_parts(parse_remote_destination(tr.destination), idx, ds)

\* Lines 697-704 once check_log_directory gave flock for the lock file of
\* the rule, logged being the outcome of the log check.
flock_checked(idx, logged, flock) ==
    IF flock.raised # ""
    THEN [raised |-> flock.raised, ok |-> FALSE, dirs |-> logged.dirs,
          checks |-> logged.checks]
    ELSE [raised |-> "", ok |-> logged.ok /\ flock.ok, dirs |-> flock.dirs,
          checks |-> Append(logged.checks, Check("flock", idx, flock.ok))]

\* Lines 697-704 after the log check gave logged.
check_flock_file(tr, idx, logged) ==
    IF tr.flock_file # <<>> /\ tr.flock_file # T("nan")
    THEN flock_checked(idx, logged, check_log_directory(tr.flock_file, logged.dirs))
    ELSE logged

\* Lines 689-695 once check_log_directory gave log for the log file.
log_checked(idx, log) ==
    [raised |-> "", ok |-> log.ok, dirs |-> log.dirs,
     checks |-> <<Check("log", idx, log.ok)>>]

\* Lines 689-704: the directories of the log file and of the lock file.
check_log_files(tr, idx, ds) ==
    check_flock_file(tr, idx,
        IF tr.log_file # <<>> /\ tr.log_file # T("nan")
        THEN log_checked(idx, check_log_directory(tr.log_file, ds))
        ELSE [raised |-> "", ok |-> TRUE, dirs |-> ds, checks |-> <<>>])

\* Lines 650-709 once the checks of the rule are known: an error raised by
\* parse_remote_destination or by check_log_directory leaves the loop with
\* the checks made before it.
transfer_checked(idx, ds, src_ok, dst, logs) ==
    IF dst.raised # ""
    THEN [raised |-> dst.raised, ok |-> FALSE, dirs |-> ds,
          checks |-> <<Check("source", idx, src_ok)>>]
    ELSE IF logs.raised # ""
    THEN [raised |-> logs.raised, ok |-> FALSE, dirs |-> logs.dirs,
          checks |-> <<Check("source", idx, src_ok)>> \o dst.checks \o logs.checks]
    ELSE [raised |-> "", ok |-> src_ok /\ dst.ok /\ logs.ok, dirs |-> logs.dirs,
          checks |-> <<Check("source", idx, src_ok)>> \o dst.checks \o logs.checks
                     \o <<Check("transfer", idx, src_ok /\ dst.ok /\ logs.ok)>>]

\* Lines 650-709: the checks of one rule.
check_transfer(tr, ds) ==
    transfer_checked(tr.idx, ds, check_local_directory(tr.source, ds),
                     check_destination(tr, tr.idx, ds), check_log_files(tr, tr.idx, ds))

\* Lines 650-709 for the rules left, first being the checks of the first of
\* them and rest the checks of those after it.
transfers_joined(first, rest) ==
    [raised |-> rest.raised, ok |-> first.ok /\ rest.ok, dirs |-> rest.dirs,
     checks |-> first.checks \o rest.checks]

\* Lines 647-709: the selected rules one after the other, in table order.
RECURSIVE check_transfers(_, _)

transfers_after(rules, first) ==
    IF first.raised # "" THEN first
    ELSE transfers_joined(first, check_transfers(Tail(rules), first.dirs))

check_transfers(rules, ds) ==
    IF rules = <<>> THEN [raised |-> "", ok |-> TRUE, dirs |-> ds, checks |-> <<>>]
    ELSE transfers_after(rules, check_transfer(Head(rules), ds))

-----------------------------------------------------------------------------
(* check_deployment_readiness.py: main and deploy_cron_files.               *)

\* Lines 591-611 for the i-th row of the file: a column with a text cell
\* has the object dtype and is stripped, NaN becoming 'nan'; a column
\* without any cell keeps its NaN unless lines 599-606 fill it.
checker_row(rows, i) ==
    LET r == [f \in DOMAIN rows[i] |->
                IF \E j \in 1..Len(rows) : rows[j][f] # NaN
                THEN strip(str(rows[i][f])) ELSE rows[i][f]]
    IN  [r EXCEPT !.rsync_options = replace_nan(str(@)),
                  !.log_file = replace_nan(str(@)),
                  !.destination_port = replace_dot_zero(replace_nan(str(@)))]
        @@ [idx |-> i]

\* Lines 591-611: the rows whose system does not start with '#'.
RECURSIVE checker_rows_from(_, _)
checker_rows_from(rows, i) ==
    IF i > Len(rows) THEN <<>>
    ELSE (IF startswith(str(rows[i].system), T("#")) THEN <<>>
          ELSE <<checker_row(rows, i)>>)
         \o checker_rows_from(rows, i + 1)

\* Line 624: the rules of the current system and user.
system_transfers(df) ==
    SelectSeq(df, LAMBDA tr : tr.system = world.system /\ tr.users = world.user)

\* The checker ended with a verdict, or with an error.
Verdict(value) == [returned |-> TRUE, value |-> value, raised |-> ""]
VerdictRaised(e) == [returned |-> FALSE, value |-> FALSE, raised |-> e]

\* Lines 644-714 once the selected rules were checked.
readiness_of(tools_ok, lock_ok, transfers) ==
    [verdict |-> IF transfers.raised # "" THEN VerdictRaised(transfers.raised)
                 ELSE Verdict(tools_ok /\ lock_ok /\ transfers.ok),
     asked |-> transfers.raised = "" /\ tools_ok /\ lock_ok /\ transfers.ok,
     dirs |-> transfers.dirs,
     checks |-> <<Check("tools", 0, tools_ok), Check("lock", 0, lock_ok)>>
                \o transfers.checks]

\* Lines 580-714: the checks main makes and the verdict it reaches, and
\* whether it goes on to ask for the deployment.
readiness ==
    IF ~table.exists
    THEN [verdict |-> Verdict(FALSE), asked |-> FALSE, dirs |-> dirs, checks |-> <<>>]
    ELSE IF system_transfers(checker_rows_from(table.rows, 1)) = <<>>
    THEN [verdict |-> Verdict(TRUE), asked |-> FALSE, dirs |-> dirs,
          checks |-> <<Check("tools", 0, world.tools)>>]
    ELSE readiness_of(world.tools, check_lock_file_directory(dirs),
                      check_transfers(system_transfers(checker_rows_from(table.rows, 1)),
                                      dirs))

\* Lines 536-546.
ask_user_permission(response) == response \in {"y", "yes"}

\* Line 415: the scheduler's active directory.
home_crontab_dir == expandvars(expanduser(T("~/crontab.d"), environ), environ)

\* Line 453: where deploy_cron_files looks for the job file of the current
\* system and user, relative to the working directory.
cron_file_pattern ==
    T("crontab.d/") \o world.system \o T(".") \o world.user \o landing_zone_cron

\* Step 5, `cat ~/crontab.d/*.cron`: the files of the active directory in
\* the order of their names, one after the other.
RECURSIVE cat(_, _)
cat(files, paths) ==
    IF paths = <<>> THEN <<>> ELSE files[Head(paths)] \o cat(files, Tail(paths))

active_cron_files(files) ==
    sorted_keys({f \in DOMAIN files :
                    /\ startswith(f, home_crontab_dir \o T("/"))
                    /\ endswith(f, T(".cron"))
                    /\ \A i \in (Len(home_crontab_dir) + 2)..Len(f) : f[i] # "/"})

\* generate_cron_files, lines 374-410, leaving sys.stdout on the capture
\* buffer when the generator raises.
generate_cron_files_unrestored(run, old_stdout) ==
    [ok |-> run.outcome.raised = "", details |-> run.stdout,
     sys_stdout |-> IF run.outcome.raised = "" THEN old_stdout ELSE "capture"]

\* generate_cron_files, lines 374-410, run being the generator's run and
\* old_stdout what sys.stdout was bound to: True with the captured output
\* when main returned, whatever its exit code; when main raised, the module
\* is run as a subprocess, which fails the same way.  The finally clause of
\* line 392 puts sys.stdout back.
generate_cron_files(run, old_stdout) ==
    [ok |-> run.outcome.raised = "", details |-> run.stdout, sys_stdout |-> old_stdout]

\* Steps 4 and 5 of deploy_cron_files with the scheduler loaded whether or
\* not the file could be copied.
copy_and_activate_unchecked(files, gen_ok) ==
    LET dest_path == os_path_join(home_crontab_dir,
                                  world.system \o T(".") \o world.user \o landing_zone_cron)
        copied == IF writable(home_crontab_dir)
                  THEN (dest_path :> files[cron_file_pattern]) @@ files ELSE files
    IN  [disk |-> copied, crontab |-> cat(copied, active_cron_files(copied)),
         checks |-> <<Check("generate", 0, gen_ok),
                      Check("copy", 0, writable(home_crontab_dir)),
                      Check("activate", 0, TRUE)>>]

\* Steps 4 and 5 of deploy_cron_files, lines 466-533: the file found is
\* copied into the active directory and the scheduler is loaded from the
\* files of that directory; a copy that fails ends the deployment.
copy_and_activate(files, gen_ok) ==
    LET dest_path == os_path_join(home_crontab_dir,
                                  world.system \o T(".") \o world.user \o landing_zone_cron)
        copied == (dest_path :> files[cron_file_pattern]) @@ files
    IN  IF writable(home_crontab_dir)
        THEN [disk |-> copied, crontab |-> cat(copied, active_cron_files(copied)),
              checks |-> <<Check("generate", 0, gen_ok), Check("copy", 0, TRUE),
                           Check("activate", 0, TRUE)>>]
        ELSE [disk |-> files, crontab |-> crontab,
              checks |-> <<Check("generate", 0, gen_ok), Check("copy", 0, FALSE)>>]

\* deploy_cron_files from step 2 on, lines 445-533, run being the
\* generator's run: without a file at the pattern nothing is copied or
\* activated.
deploy_cron_files(run) ==
    IF cron_file_pattern \in DOMAIN run.writes
    THEN copy_and_activate(run.writes, generate_cron_files(run, sys_stdout).ok)
    ELSE [disk |-> run.writes, crontab |-> crontab,
          checks |-> <<Check("generate", 0, generate_cron_files(run, sys_stdout).ok)>>]

\* setup_crontab_directory, lines 413-424: ~/crontab.d exists or can be made.
setup_crontab_directory(ds) ==
    path_exists(ds, home_crontab_dir) \/ can_makedirs(ds, home_crontab_dir)

\* The command line of the generator when the checker calls it.
NoArgs == [log_dir |-> None, crontab_dir |-> None, transfers_file |-> None]

\* check_deployment_readiness.main, lines 549-751, the operator answering
\* response if the prompt of line 721 is reached.
check_main(response) ==
    \E report \in {readiness} :
        /\ verdict' = report.verdict
        /\ IF report.asked /\ ask_user_permission(response)
                /\ setup_crontab_directory(report.dirs)
           THEN \E run \in {run_main(load_config(config, NoArgs))} :
                \E deployed \in {deploy_cron_files(run)} :
                    /\ dirs' = makedirs(report.dirs, home_crontab_dir) \cup run.made
                    /\ disk' = deployed.disk
                    /\ crontab' = deployed.crontab
                    /\ checks' = report.checks \o <<Check("prompt", 0, TRUE)>>
                                  \o deployed.checks
                    /\ transfers_df' = run.transfers_df
                    /\ stdout' = run.stdout
                    /\ outcome' = run.outcome
                    /\ sys_stdout' = generate_cron_files(run, sys_stdout).sys_stdout
           ELSE /\ dirs' = report.dirs
                /\ checks' = report.checks
                              \o (IF ~report.asked THEN <<>>
                                  ELSE IF ~ask_user_permission(response)
                                  THEN <<Check("prompt", 0, FALSE)>>
                                  ELSE <<Check("prompt", 0, TRUE),
                                         Check("setup", 0, FALSE)>>)
                /\ UNCHANGED <<disk, crontab, transfers_df, stdout, outcome, sys_stdout>>
        /\ UNCHANGED <<config_vars, table, cmd_vars, fn_vars, world>>

MaxCheckRows == 2

\* A rule of the table the checker reads.
CheckRow(system, source, destination, flock_file) ==
    [Row(system, "b", source, flock_file) EXCEPT !.destination = Cell(destination)]

CheckRows ==
    {CheckRow("a", src, dst, "/l/k") : src \in {"/s/*", "/m/"},
                                       dst \in {"/d/", "u@h:/r/", "h:/r@x"}}
    \cup {CheckRow("c", "/s/", "/d/", "/l/k"), CheckRow("a", "/s/", "/d/", "")}

CheckTables ==
    {[exists |-> FALSE, rows |-> <<>>]}
    \cup {[exists |-> TRUE, rows |-> rs] : rs \in SeqsUpTo(CheckRows, MaxCheckRows)}

\* What the checker finds on the machine: whether the required tools are
\* installed, whether the remote host answers and has the directory, the
\* system and user of the machine; the user may write to every directory.
Worlds ==
    [tools : BOOLEAN, reachable : BOOLEAN, remote_dir : BOOLEAN,
     system : {T("a")}, user : {T("b")}, readonly : {{}}]

\* The directories of the machine: /tmp may be missing.
InitialDirs == {{T("/"), T("/s"), T("/d"), T("/home/u")} \cup t : t \in {{}, {T("/tmp")}}}

\* The configuration file: none, or one that sets crontab_dir.
CheckConfigs == {EmptyConfig, ("crontab_dir" :> T("crontab.d"))}

\* The active directory holds the job file of another system, installed.
InstalledDisk == (T("/home/u/crontab.d/c.b.Landing_Zone.cron") :> T("# c\n"))

InitCheck ==
    /\ runtime_config = EmptyConfig
    /\ yaml_config \in CheckConfigs
    /\ environ = Environ
    /\ table \in CheckTables
    /\ dirs \in {d \cup {home_crontab_dir} : d \in InitialDirs}
    /\ disk = InstalledDisk
    /\ transfers_df = <<>>
    /\ stdout = <<>>
    /\ outcome = NotRun
    /\ given = Idle /\ transfer = Idle /\ loaded = FALSE /\ result = NoResult
    /\ call = NoCall /\ ret = NoReturn
    /\ world \in Worlds
    /\ checks = <<>>
    /\ verdict = NoVerdict
    /\ crontab = InstalledDisk[T("/home/u/crontab.d/c.b.Landing_Zone.cron")]
    /\ sys_stdout = "terminal"

NextCheck == \E response \in {"y", "yes", "n"} : check_main(response)

SpecCheck == InitCheck /\ [][NextCheck]_vars

-----------------------------------------------------------------------------
(* Properties of the readiness checker.                                     *)

\* The checker has run.
Checked == verdict # NoVerdict

\* The places of the report where a check of the given name was made.
ChecksNamed(names) == {i \in 1..Len(checks) : checks[i].check \in names}

\* The rows of the table that are rules of the current system and user.
SelectedRules ==
    {i \in 1..Len(table.rows) :
        /\ table.rows[i].system = world.system
        /\ table.rows[i].users = world.user}

\* C16: the tool check and the lock-directory check are each made once,
\* before any check of a rule, and the verdict is true only if both passed
\* and every checked rule passed; with a failed prerequisite the verdict is
\* false, also when no rule matches the current system and user.
C16_PrerequisitesGate ==
    (Checked /\ table.exists) =>
        /\ Cardinality(ChecksNamed({"tools"})) = 1
        /\ Cardinality(ChecksNamed({"lock"})) = 1
        /\ \A i \in ChecksNamed({"tools", "lock"}) :
                \A j \in 1..Len(checks) : checks[j].rule # 0 => i < j
        /\ (verdict.returned /\ verdict.value) =>
                \A i \in ChecksNamed({"tools", "lock", "transfer"}) : checks[i].ok
        /\ (\E i \in ChecksNamed({"tools", "lock"}) : ~checks[i].ok) =>
                ~(verdict.returned /\ verdict.value)

\* The rule is checked against a remote destination: its destination is
\* user@host:path with a user and a host.
RemoteDestination(d) ==
    /\ IsUserHostPath(d)
    /\ LET at == SetMin({i \in 1..Len(d) : d[i] = "@"})
           colon == SetMin({i \in 1..Len(d) : d[i] = ":"})
       IN  at > 1 /\ colon > at + 1

\* C17: for a rule with a remote destination the SSH probe is made, and
\* the directory probe only right after an SSH probe of the same rule that
\* succeeded; a failed SSH probe is followed by no directory probe and the
\* rule fails; a successful one is followed by the directory probe, whose
\* failure fails the rule.
C17_ProbeOrder ==
    Checked =>
        /\ \A r \in SelectedRules :
              (/\ RemoteDestination(strip(table.rows[r].destination))
               /\ \E i \in 1..Len(checks) : checks[i] = Check("source", r, checks[i].ok))
              => \E i \in ChecksNamed({"ssh"}) : checks[i].rule = r
        /\ \A i \in ChecksNamed({"remote_dir"}) :
              i > 1 /\ checks[i - 1] = Check("ssh", checks[i].rule, TRUE)
        /\ \A i \in ChecksNamed({"ssh"}) :
              IF checks[i].ok
              THEN /\ i < Len(checks)
                   /\ checks[i + 1].check = "remote_dir"
                   /\ checks[i + 1].rule = checks[i].rule
                   /\ ~checks[i + 1].ok =>
                        \E j \in (i + 2)..Len(checks) :
                            checks[j] = Check("transfer", checks[i].rule, FALSE)
              ELSE /\ \A j \in ChecksNamed({"remote_dir"}) : checks[j].rule # checks[i].rule
                   /\ \E j \in (i + 1)..Len(checks) :
                        checks[j] = Check("transfer", checks[i].rule, FALSE)

\* A rule whose host did not answer: no directory probe, the rule failed.
C17_Witness ==
    \E i \in 1..Len(checks) :
        /\ checks[i] = Check("ssh", checks[i].rule, FALSE)
        /\ \E j \in (i + 1)..Len(checks) :
                checks[j] = Check("transfer", checks[i].rule, FALSE)

\* C18: no check raises out of the checker, and every rule of the current
\* system and user gets its checks, the rules in table order.
C18_EveryRuleChecked ==
    (Checked /\ table.exists) =>
        /\ verdict.raised = ""
        /\ {checks[i].rule : i \in ChecksNamed({"transfer"})} = SelectedRules
        /\ \A i, j \in ChecksNamed({"transfer"}) : i < j => checks[i].rule < checks[j].rule

\* The job file of the current system and user: its name, where the
\* generator writes it and where the scheduler reads it.
CurrentJobFile == world.system \o T(".") \o world.user \o landing_zone_cron
GeneratedJobFile == os_path_join(crontab_dir(config), CurrentJobFile)
ActiveJobFile == os_path_join(home_crontab_dir, CurrentJobFile)

\* C20: once the operator accepted the prompt the job files are generated,
\* then the generated job file of the current system and user is copied
\* into ~/crontab.d, then the scheduler is loaded from all job files of
\* that directory, in that order.
C20_Deployed ==
    (\E i \in 1..Len(checks) : checks[i] = Check("prompt", 0, TRUE)) =>
        /\ Len(checks) >= 4
        /\ SubSeq(checks, Len(checks) - 3, Len(checks))
             = <<Check("prompt", 0, TRUE), Check("generate", 0, TRUE),
                 Check("copy", 0, TRUE), Check("activate", 0, TRUE)>>
        /\ GeneratedJobFile \in DOMAIN disk
        /\ ActiveJobFile \in DOMAIN disk
        /\ disk[ActiveJobFile] = disk[GeneratedJobFile]
        /\ crontab = cat(disk, active_cron_files(disk))

-----------------------------------------------------------------------------
(* Configuration resolution.                                                *)

\* The recognized options, the environment variable of each and its
\* built-in default (crontab_dir's is derived from output_dir).
Options ==
    {"transfers_file", "default_lock_file", "log_dir", "output_dir", "input_dir",
     "crontab_dir", "default_cron_frequency"}

EnvVar ==
    [transfers_file |-> "LZ_TRANSFERS_FILE", default_lock_file |-> "LZ_LOCK_FILE",
     log_dir |-> "LZ_LOG_DIR", output_dir |-> "LZ_OUTPUT_DIR",
     input_dir |-> "LZ_INPUT_DIR", crontab_dir |-> "LZ_CRONTAB_DIR",
     default_cron_frequency |-> "LZ_CRON_FREQUENCY"]

BuiltinDefault ==
    [transfers_file |-> T("config/transfers.tsv"),
     default_lock_file |-> T("/tmp/landingzones.lock"),
     log_dir |-> T("log"), output_dir |-> T("output"), input_dir |-> T("input"),
     default_cron_frequency |-> T("*/15 * * * *")]

\* The values a source may hold for an option.
RuntimeValues == {T("~/r"), <<>>}
EnvValues == {T("e"), T("$HOME/e"), <<>>}
YamlValues == {T("y")}

\* A process starts with no runtime override, the environment it was given
\* and the values of the config file it discovered: one option is set in the
\* environment, or none, and one in the config file, or none.
InitConfig ==
    /\ runtime_config = EmptyConfig
    /\ yaml_config \in {EmptyConfig} \cup {(o :> v) : o \in Options, v \in YamlValues}
    /\ environ \in {Environ} \cup {Environ @@ (EnvVar[o] :> v) : o \in Options, v \in EnvValues}
    /\ table = [exists |-> FALSE, rows |-> <<>>]
    /\ dirs = {}
    /\ disk = NoFiles
    /\ transfers_df = <<>>
    /\ stdout = <<>>
    /\ outcome = NotRun
    /\ given = Idle /\ transfer = Idle /\ loaded = FALSE /\ result = NoResult
    /\ call = NoCall /\ ret = NoReturn
    /\ NoChecker

\* The number of options that are given at run time.
MaxOverrides == 2

\* Config.load_config(**kwargs), lines 119-146, with one runtime override.
LoadConfig(key, value) ==
    /\ Cardinality(DOMAIN runtime_config \cup {key}) <= MaxOverrides
    /\ runtime_config' =
            [k \in DOMAIN runtime_config \cup {key} |->
                IF k = key THEN value ELSE runtime_config[k]]
    /\ call' = NoCall
    /\ ret' = NoReturn
    /\ UNCHANGED <<yaml_config, environ, main_vars, cmd_vars, checker_vars>>

\* Every option is resolved (Config.to_dict, lines 216-228).
Resolve ==
    /\ call' = [fn |-> "to_dict"]
    /\ ret' = [fn |-> "to_dict", value |-> to_dict(config)]
    /\ UNCHANGED <<config_vars, main_vars, cmd_vars, checker_vars>>

NextConfig ==
    \/ \E key \in Options, value \in RuntimeValues : LoadConfig(key, value)
    \/ Resolve

SpecConfig == InitConfig /\ [][NextConfig]_vars

\* The built-in default of an option once the options were resolved.
DefaultOf(o) ==
    IF o = "crontab_dir" THEN os_path_join(ret.value.output_dir, T("crontab.d"))
    ELSE BuiltinDefault[o]

\* The source an option is taken from, the environment counting when
\* EnvCounts says so of the variable's value.
Chosen(o, EnvCounts(_)) ==
    IF o \in DOMAIN runtime_config THEN runtime_config[o]
    ELSE IF EnvVar[o] \in DOMAIN environ /\ EnvCounts(environ[EnvVar[o]])
    THEN environ[EnvVar[o]]
    ELSE IF o \in DOMAIN yaml_config THEN yaml_config[o]
    ELSE DefaultOf(o)

IsSet(v) == TRUE
IsNonEmpty(v) == v # <<>>

\* C19 as stated: every option resolves to the runtime value if one was
\* given, otherwise to the environment variable if it is set, otherwise to
\* the config file's value, otherwise to the built-in default ('~' and
\* $NAME expanded).
C19_AsStated ==
    ret # NoReturn =>
        \A o \in Options : ret.value[o] = _expand_path(Chosen(o, IsSet))

\* C19: every option resolves to the runtime value if one was given,
\* otherwise to the environment variable if it is set to a non-empty value,
\* otherwise to the config file's value, otherwise to the built-in default,
\* '~' and $NAME expanded in the value taken.
C19_Priority ==
    ret # NoReturn =>
        \A o \in Options : ret.value[o] = _expand_path(Chosen(o, IsNonEmpty))

\* An option given both at run time and in the environment was resolved:
\* to the runtime value, which differs from the environment's.
C19_Witness ==
    /\ ret # NoReturn
    /\ \E o \in Options :
        /\ o \in DOMAIN runtime_config
        /\ EnvVar[o] \in DOMAIN environ
        /\ environ[EnvVar[o]] # <<>>
        /\ ret.value[o] = _expand_path(runtime_config[o])
        /\ ret.value[o] # _expand_path(environ[EnvVar[o]])

-----------------------------------------------------------------------------
(* Generator runs on tables whose rules lack an identity or a lock path,    *)
(* or have a '.' in their system or user.                                   *)

MaxGroupRows == 2

GroupRows ==
    {Row("a", "b", "/s/*", "/l"), Row("a", "b", "/t/", ""),
     Row("a.b", "c", "/s/", "/l"), Row("a", "b.c", "/s/", "/l"),
     Row("a", "", "/s/", "/l"), Row("", "b", "/s/", "/l")}

\* The system and users columns each hold text in some row, so pandas reads
\* them with the object dtype and lines 25-26 turn an empty cell into 'nan'.
GroupTables ==
    {[exists |-> TRUE, rows |-> rs] :
        rs \in {t \in SeqsUpTo(GroupRows, MaxGroupRows) :
                    /\ \E i \in 1..Len(t) : t[i].system # NaN
                    /\ \E i \in 1..Len(t) : t[i].users # NaN}}

InitGroups ==
    /\ runtime_config = EmptyConfig
    /\ yaml_config = EmptyConfig
    /\ environ = Environ
    /\ table \in GroupTables
    /\ dirs = {}
    /\ disk \in InitialDisks
    /\ transfers_df = <<>>
    /\ stdout = <<>>
    /\ outcome = NotRun
    /\ given = Idle /\ transfer = Idle /\ loaded = FALSE /\ result = NoResult
    /\ call = NoCall /\ ret = NoReturn
    /\ NoChecker

NextGroups == \E args \in Args : main(args)

SpecGroups == InitGroups /\ [][NextGroups]_vars

\* The rows of the table (by index) without a system or without a user.
MissingIdentity ==
    {i \in 1..Len(table.rows) :
        table.rows[i].system = NaN \/ table.rows[i].users = NaN}

\* C21: a run whose retained rows include one without a system or without
\* a user ends with an error, and no such row is a rule of a group or gets
\* a job file.
C21_IdentityRequired ==
    (Ran /\ \E i \in MissingIdentity : ~IsCommentRow(table.rows[i])) =>
        /\ outcome.raised # ""
        /\ LoadedIdx \cap MissingIdentity = {}
        /\ stdout = <<>>

-----------------------------------------------------------------------------
(* check_log_directory on its own, called again and again.                  *)

\* The log and lock paths checked: below a missing directory, below one
\* that exists, in the working directory, empty and 'nan'.
LogPaths ==
    {T("/l/k"), T("/l/m/k"), T("/s/k"), T("/p/k"), T("/p/n/k"), T("~/g/k"),
     T("k"), <<>>, T("nan")}

\* The directories the user may not write to.
ReadOnlyDirs == {{}, {T("/p")}, {T("/")}}

InitLogDir ==
    /\ runtime_config = EmptyConfig
    /\ yaml_config = EmptyConfig
    /\ environ = Environ
    /\ table = [exists |-> FALSE, rows |-> <<>>]
    /\ dirs = {T("/"), T("/s"), T("/p"), T("/home"), T("/home/u")}
    /\ disk = NoFiles
    /\ transfers_df = <<>>
    /\ stdout = <<>>
    /\ outcome = NotRun
    /\ given = Idle /\ transfer = Idle /\ loaded = FALSE /\ result = NoResult
    /\ call = NoCall /\ ret = NoReturn
    /\ world \in {NoWorld @@ [readonly |-> r] : r \in ReadOnlyDirs}
    /\ checks = <<>> /\ verdict = NoVerdict /\ crontab = NoCrontab
    /\ sys_stdout = "terminal"

\* check_log_directory(log_file_path), lines 216-242: the call keeps the
\* directories it found and whether it repeats a call that passed.
CheckLogDirectory(log_file_path) ==
    \E checked \in {check_log_directory(log_file_path, dirs)} :
        /\ call' = [fn |-> "check_log_directory", path |-> log_file_path,
                    before |-> dirs,
                    repeats |-> /\ call.fn = "check_log_directory"
                                /\ call.path = log_file_path
                                /\ ret.value.ok]
        /\ ret' = [fn |-> "check_log_directory",
                   value |-> [raised |-> checked.raised, ok |-> checked.ok]]
        /\ dirs' = checked.dirs
        /\ UNCHANGED <<config_vars, table, disk, transfers_df, stdout, outcome,
                       cmd_vars, checker_vars>>

NextLogDir == \E log_file_path \in LogPaths : CheckLogDirectory(log_file_path)

SpecLogDir == InitLogDir /\ [][NextLogDir]_vars

\* The directory a log or lock file is to be written in.
ParentDir(path) == os_path_dirname(_expand_path(path))

\* The directory exists, or a writable directory exists above it.
RECURSIVE Creatable(_, _)
Creatable(ds, dir) ==
    IF dir \in ds THEN dir \notin world.readonly
    ELSE IF os_path_dirname(dir) = dir \/ os_path_dirname(dir) = <<>> THEN TRUE
    ELSE Creatable(ds, os_path_dirname(dir))

-----------------------------------------------------------------------------
(* Command synthesis on rules whose fields hold wildcards and quotes.       *)

SynthSources ==
    {T("/s/"), T("/s/*"), T("/s*"), T("/s/**"), T("/s//*"), T("/s*/*"), T("/s'x/*")}
SynthDestinations == {T("/dest/"), T("/d'e/")}
SynthOptions == {<<>>, T("-e 'ssh -i k'")}
SynthLogFiles == {<<>>, T("/l'g")}

SynthTransfers ==
    [enabled : {T("TRUE")}, system : {T("srv")}, users : {T("usr")},
     source : SynthSources, source_port : {<<>>},
     destination : SynthDestinations, destination_port : {<<>>},
     rsync_options : SynthOptions, log_file : SynthLogFiles,
     flock_file : {T("/l")}, frequency : {<<>>}]

InitSynth ==
    /\ runtime_config = EmptyConfig
    /\ yaml_config = EmptyConfig
    /\ environ = Environ
    /\ table = [exists |-> FALSE, rows |-> <<>>]
    /\ dirs = {}
    /\ disk = NoFiles
    /\ transfers_df = <<>>
    /\ stdout = <<>>
    /\ outcome = NotRun
    /\ given \in SynthTransfers
    /\ transfer = given
    /\ loaded = FALSE
    /\ result = NoResult
    /\ call = NoCall /\ ret = NoReturn
    /\ NoChecker

NextSynth == Load \/ Synthesize

SpecSynth == InitSynth /\ [][NextSynth]_vars

\* Where a text first occurs in another (0 when it does not).
IndexOf(s, sub) ==
    LET at == {i \in 1..(Len(s) - Len(sub) + 1) : SubSeq(s, i, i + Len(sub) - 1) = sub}
    IN  IF at = {} THEN 0 ELSE SetMin(at)

\* The directory the cleanup of a command is run on: what stands between
\* "&& find " and " -mindepth".
CleanupTarget(command) ==
    LET from == IndexOf(command, T("&& find ")) + 8
        rest == SubSeq(command, from, Len(command))
    IN  SubSeq(rest, 1, IndexOf(rest, T(" -mindepth 1 -type d -empty -delete")) - 1)

\* C23: the cleanup target of a source that ends in '*' is the source
\* without its trailing wildcard marker and separator, and ends neither in
\* '*' nor in '/'; the target of any other source is the source.
C23_CleanupTarget ==
    result.returned =>
        LET target == CleanupTarget(result.command)
        IN  IF endswith(transfer.source, T("*"))
            THEN /\ startswith(transfer.source, target)
                 /\ Len(target) < Len(transfer.source)
                 /\ ~endswith(target, T("*"))
                 /\ ~endswith(target, T("/"))
            ELSE target = transfer.source

\* The argument handed to the lock wrapper after -c: what follows the
\* opening quote, and the quoted body without the closing quote.
QuotedArgument(command) ==
    SubSeq(command, IndexOf(command, T(" -c '")) + 5, Len(command))

\* C25: the transport and cleanup commands are handed to the lock wrapper
\* as one single-quoted argument that ends the command line, and nothing
\* inside it ends the quoting: the body holds no single quote.
C25_ShellSafe ==
    result.returned =>
        LET arg == QuotedArgument(result.command)
        IN  /\ IndexOf(result.command, T(" -c '")) > 0
            /\ arg # <<>>
            /\ arg[Len(arg)] = "'"
            /\ \A i \in 1..(Len(arg) - 1) : arg[i] # "'"

\* The loaded rules without a lock path, and the job files of their groups.
Lockless(df) == {i \in 1..Len(df) : strip(clean_nan(df[i].flock_file)) = <<>>}
LocklessFiles(df) == {JobFilePath(GroupKey(df[i])) : i \in Lockless(df)}

\* C24: a run that loaded a rule without a lock path ends with the
\* validation error, not with an exit code, and the job file of every group
\* holding such a rule is as it was before the run: absent, or with its old
\* content.
C24_AbortKeepsFile ==
    [][(table.exists /\ Lockless(transfers_df') # {}) =>
            /\ outcome' = Raised("ValueError")
            /\ \A path \in LocklessFiles(transfers_df') :
                    IF path \in DOMAIN disk
                    THEN path \in DOMAIN disk' /\ disk'[path] = disk[path]
                    ELSE path \notin DOMAIN disk']_vars

\* A run ended by a rule of group a.b without a lock path, the job file
\* of an earlier run still holding its old content.
C24_Witness ==
    /\ outcome = Raised("ValueError")
    /\ \E i \in Lockless(transfers_df) : GroupKey(transfers_df[i]) = T("a.b")
    /\ JobFilePath(T("a.b")) \in DOMAIN disk
    /\ disk[JobFilePath(T("a.b"))] = T("# old\n")

\* C26: two loaded rules whose (system, user) pairs differ have different
\* group keys and go to different job files.
C26_DistinctFiles ==
    Ran =>
        \A i, j \in 1..Len(transfers_df) :
            (transfers_df[i].system # transfers_df[j].system
                \/ transfers_df[i].users # transfers_df[j].users)
            => /\ transfers_df[i].system_user # transfers_df[j].system_user
               /\ JobFilePath(transfers_df[i].system_user)
                    # JobFilePath(transfers_df[j].system_user)

-----------------------------------------------------------------------------
(* Runs of the generator between which rules are removed, commented out or  *)
(* disabled.                                                                *)

MaxFrameRows == 2

FrameRow(system, source, enabled) ==
    Row(system, "b", source, "/l") @@ ("enabled" :> Cell(enabled))

FrameRows ==
    {FrameRow("a", "/s/*", "TRUE"), FrameRow("a", "/s/*", "FALSE"),
     FrameRow("#a", "/s/*", "TRUE"), FrameRow("c", "/u/", "TRUE")}

FrameTables ==
    {[exists |-> FALSE, rows |-> <<>>]}
    \cup {[exists |-> TRUE, rows |-> rs] : rs \in SeqsUpTo(FrameRows, MaxFrameRows)}

InitFrames ==
    /\ runtime_config = EmptyConfig
    /\ yaml_config = EmptyConfig
    /\ environ = Environ
    /\ table \in FrameTables
    /\ dirs = {}
    /\ disk \in InitialDisks
    /\ transfers_df = <<>>
    /\ stdout = <<>>
    /\ outcome = NotRun
    /\ given = Idle /\ transfer = Idle /\ loaded = FALSE /\ result = NoResult
    /\ call = NoCall /\ ret = NoReturn
    /\ NoChecker

\* The operator edits the transfers file between two runs.
edit_rules ==
    /\ table' \in FrameTables \ {table}
    /\ UNCHANGED <<config_vars, dirs, disk, transfers_df, stdout, outcome, cmd_vars,
                   fn_vars, checker_vars>>

NextFrames ==
    \/ \E args \in Args : main(args)
    \/ edit_rules

SpecFrames == InitFrames /\ [][NextFrames]_vars

\* The job files of the groups that have a rule in the table: a row that is
\* not commented out and not disabled.
ActiveFiles(t) ==
    {JobFilePath(strip(str(t.rows[i].system)) \o T(".") \o strip(str(t.rows[i].users))) :
        i \in {j \in 1..Len(t.rows) :
                /\ ~IsCommentRow(t.rows[j])
                /\ "enabled" \in DOMAIN t.rows[j] =>
                        upper(strip(str(t.rows[j].enabled))) = T("TRUE")}}

\* C27: a run touches only the job files of the groups that have a rule in
\* the table; every other file, such as the job file of a group whose rules
\* were removed, commented out or disabled, stays with its content.
C27_OtherFilesKept ==
    [][\A path \in DOMAIN disk :
            path \notin ActiveFiles(table') =>
                path \in DOMAIN disk' /\ disk'[path] = disk[path]]_vars

-----------------------------------------------------------------------------
(* The deployment driver on hosts where a directory may be read-only, and   *)
(* the generate_cron_files wrapper called on its own.                       *)

MaxDeployRows == 2

DeployRows ==
    {CheckRow("a", "/s/*", "/d/", "/l/k"), CheckRow("a", "/m/", "/d/", "/l/k"),
     CheckRow("a", "/s/", "/d/", ""), CheckRow("c", "/s/", "/d/", "/l/k")}

DeployTables ==
    {[exists |-> FALSE, rows |-> <<>>]}
    \cup {[exists |-> TRUE, rows |-> rs] : rs \in SeqsUpTo(DeployRows, MaxDeployRows)}

\* The tools are installed or not; the user may write everywhere, or not to
\* the root directory, the home directory or the scheduler's active
\* directory.
DeployWorlds ==
    [tools : BOOLEAN, reachable : {TRUE}, remote_dir : {TRUE},
     system : {T("a")}, user : {T("b")},
     readonly : {{}, {T("/")}, {T("/home/u")}, {T("/home/u/crontab.d")}}]

InitDeploy ==
    /\ runtime_config = EmptyConfig
    /\ yaml_config = ("crontab_dir" :> T("crontab.d"))
    /\ environ = Environ
    /\ disk \in {NoFiles, InstalledDisk}
    /\ dirs \in {d \cup (IF disk = NoFiles THEN {} ELSE {home_crontab_dir}) : d \in InitialDirs}
    /\ crontab = cat(disk, active_cron_files(disk))
    /\ table \in DeployTables
    /\ transfers_df = <<>>
    /\ stdout = <<>>
    /\ outcome = NotRun
    /\ given = Idle /\ transfer = Idle /\ loaded = FALSE /\ result = NoResult
    /\ call = NoCall /\ ret = NoReturn
    /\ world \in DeployWorlds
    /\ checks = <<>>
    /\ verdict = NoVerdict
    /\ sys_stdout \in {"terminal", "logfile"}

\* generate_cron_files(), lines 374-410, called on its own: the generator
\* runs in the caller's process.
GenerateCronFiles ==
    \E run \in {run_main(load_config(config, NoArgs))} :
        /\ call' = [fn |-> "generate_cron_files", sys_stdout |-> sys_stdout]
        /\ ret' = [fn |-> "generate_cron_files",
                   value |-> [ok |-> generate_cron_files(run, sys_stdout).ok,
                              details |-> generate_cron_files(run, sys_stdout).details]]
        /\ sys_stdout' = generate_cron_files(run, sys_stdout).sys_stdout
        /\ dirs' = dirs \cup run.made
        /\ disk' = run.writes
        /\ transfers_df' = run.transfers_df
        /\ stdout' = run.stdout
        /\ outcome' = run.outcome
        /\ UNCHANGED <<config_vars, table, cmd_vars, world, checks, verdict, crontab>>

NextDeploy ==
    \/ \E response \in {"y", "yes", "n"} : check_main(response)
    \/ GenerateCronFiles

SpecDeploy == InitDeploy /\ [][NextDeploy]_vars

\* The report of a run of the checker holds a check of that name, passed.
Passed(log, name) == \E i \in 1..Len(log) : log[i] = Check(name, 0, TRUE)

\* C28: the scheduler is loaded only in a run of the checker whose tool
\* check, lock-directory check and per-rule checks all passed, in which the
\* operator accepted the prompt and the job file was copied; in any other
\* run, and when the wrapper alone is called, the crontab stays as it was.
C28_ActivationGuarded ==
    [][IF verdict' # verdict \/ checks' # checks
       THEN IF Passed(checks', "activate")
            THEN /\ verdict' = Verdict(TRUE)
                 /\ Passed(checks', "tools")
                 /\ Passed(checks', "lock")
                 /\ \A i \in 1..Len(checks') :
                        checks'[i].check \in {"source", "destination", "ssh",
                                              "remote_dir", "log", "flock", "transfer"}
                        => checks'[i].ok
                 /\ Passed(checks', "prompt")
                 /\ Passed(checks', "copy")
                 /\ ActiveJobFile \in DOMAIN disk'
            ELSE crontab' = crontab
       ELSE crontab' = crontab]_vars

\* The scheduler was loaded with the job file of the current system and
\* user after the installed one.
C28_Witness ==
    /\ Passed(checks, "activate")
    /\ ActiveJobFile \in DOMAIN disk
    /\ crontab = disk[ActiveJobFile] \o T("# c\n")

\* C29: the wrapper reports success with the captured output whenever the
\* generator's main returned, also with exit code 1, and failure only when
\* main raised; sys.stdout is afterwards what it was before the call.
C29_WrapperResult ==
    call.fn = "generate_cron_files" =>
        /\ outcome.returned => ret.value.ok /\ ret.value.details = stdout
        /\ ~ret.value.ok => outcome.raised # ""
        /\ sys_stdout = call.sys_stdout

\* The wrapper reported success for a run of the generator that ended with
\* exit code 1, its output stream restored.
C29_Witness ==
    /\ call.fn = "generate_cron_files"
    /\ outcome = Returned(1)
    /\ ret.value.ok
    /\ sys_stdout = "logfile"

-----------------------------------------------------------------------------
(* Config.load_config called several times in one process.                  *)

\* The number of load_config calls of a process.
MaxLoads == 2

\* The arguments of a call: config_file is None, '', a file that exists
\* (under the home directory) or one that does not; log_dir is omitted, None
\* or a value; crontab_dir is None or a value.
LoadArgs ==
    {(IF l = <<"omitted">> THEN EmptyConfig ELSE ("log_dir" :> l))
        @@ ("config_file" :> f) @@ ("crontab_dir" :> c) :
        f \in {None, <<>>, T("~/a.yaml"), T("/m.yaml")},
        l \in {<<"omitted">>, None, T("r"), T("q")},
        c \in {None, T("r")}}

\* A process whose Config instance was constructed: no runtime override,
\* the file layer discovered by __init__ (line 108) and no call yet.
InitLoads ==
    /\ runtime_config = EmptyConfig
    /\ yaml_config \in {EmptyConfig, ("log_dir" :> T("y"))}
    /\ environ = Environ
    /\ table = [exists |-> FALSE, rows |-> <<>>]
    /\ dirs = {}
    /\ disk = NoFiles
    /\ transfers_df = <<>>
    /\ stdout = <<>>
    /\ outcome = NotRun
    /\ given = Idle /\ transfer = Idle /\ loaded = FALSE /\ result = NoResult
    /\ call = [fn |-> "load_config", discovered |-> yaml_config, calls |-> <<>>]
    /\ ret = NoReturn
    /\ NoChecker

\* config.load_config(**kwargs), the calls of the process being recorded.
LoadConfigCall(kwargs) ==
    /\ Len(call.calls) < MaxLoads
    /\ \E self \in {load_config(config, kwargs)} :
        /\ runtime_config' = self.runtime_config
        /\ yaml_config' = self.yaml_config
    /\ call' = [call EXCEPT !.calls = Append(@, kwargs)]
    /\ UNCHANGED <<environ, main_vars, cmd_vars, ret, checker_vars>>

NextLoads == \E kwargs \in LoadArgs : LoadConfigCall(kwargs)

SpecLoads == InitLoads /\ [][NextLoads]_vars

\* The calls, by position, that supplied a value other than None for o.
Supplied(o) ==
    {i \in 1..Len(call.calls) : o \in DOMAIN call.calls[i] /\ call.calls[i][o] # None}

\* The calls, by position, that named a config file.
Named == {i \in Supplied("config_file") : call.calls[i]["config_file"] # <<>>}

Latest(S) == CHOOSE i \in S : \A j \in S : j <= i

\* C30: after any sequence of load_config calls an option has a runtime
\* override exactly when some call supplied a value other than None for it,
\* and the override is the value of the most recent such call; the file
\* layer is that of the most recent call that named a config file, whole
\* ({} for a file that does not exist), or the discovered one when no call
\* named a file.
C30_OverridesAccumulate ==
    call.fn = "load_config" /\ "calls" \in DOMAIN call =>
        /\ DOMAIN runtime_config = {o \in {"log_dir", "crontab_dir"} : Supplied(o) # {}}
        /\ \A o \in DOMAIN runtime_config :
                runtime_config[o] = call.calls[Latest(Supplied(o))][o]
        /\ yaml_config =
                IF Named = {} THEN call.discovered
                ELSE IF call.calls[Latest(Named)]["config_file"] = T("~/a.yaml")
                THEN ("crontab_dir" :> T("c"))
                ELSE EmptyConfig

\* A first call set log_dir and named the existing file; a second call
\* passed None for log_dir and named no file: the override and the file
\* layer of the first call are still there, the discovered layer is gone.
C30_Witness ==
    /\ call.fn = "load_config" /\ "calls" \in DOMAIN call
    /\ Len(call.calls) = 2
    /\ call.calls[1] = ("log_dir" :> T("q")) @@ ("config_file" :> T("~/a.yaml")) @@ ("crontab_dir" :> None)
    /\ call.calls[2] = ("log_dir" :> None) @@ ("config_file" :> None) @@ ("crontab_dir" :> T("r"))
    /\ call.discovered = ("log_dir" :> T("y"))
    /\ runtime_config = ("log_dir" :> T("q")) @@ ("crontab_dir" :> T("r"))
    /\ yaml_config = ("crontab_dir" :> T("c"))

====
